---- MODULE Spec2Model ----
(***************************************************************************)
(* Model of auto_capture: the redaction pipeline (redact.py), the click     *)
(* marker and the zoom animation (annotate.py), the capture session       *)
(* (capture.py) and its per-capture callback (cli.py).                     *)
(*                                                                         *)
(* Text is a sequence of one-character strings.  A call of one of the      *)
(* module's functions is the variable `call': its name, its arguments and, *)
(* once it has run, its result.                                            *)
(***************************************************************************)
EXTENDS Integers, Sequences, FiniteSets, TLC

VARIABLES
  call,          \* a call of one of the pure functions
  pc,            \* the stage a call of redact_image is at
  image_path,    \* redact_image's arguments
  output_path,
  config,
  files,         \* the image files on disk, by path
  saved,         \* the paths an image was saved to by the call
  ocr_runs,      \* how many times _ocr_image ran
  ocr_results,   \* what _ocr_image returned
  img_size,
  regions,       \* what _find_sensitive_regions returned
  result,        \* how redact_image ended: its return value, or an exception
  session,       \* the CaptureSession: its attributes
  windows,       \* the on-screen window list, front to back
  shots,         \* the files the session wrote, by path: what was done to each
  handled        \* the events and calls the session handled, in order

redactVars ==
  <<pc, image_path, output_path, config, files, saved, ocr_runs, ocr_results,
    img_size, regions, result>>

sessionVars == <<session, windows, shots, handled>>

vars == <<call, redactVars, sessionVars>>

None == "None"

\* no call of a pure function is made
NoCall == [fn |-> None, args |-> <<>>, returned |-> FALSE, ret |-> <<>>]

Max(a, b) == IF a >= b THEN a ELSE b

Min(a, b) == IF a <= b THEN a ELSE b

(***************************************************************************)
(* Python string operations used by redact.py.                             *)
(***************************************************************************)

\* text[:n] for n >= 0
SliceTo(text, n) == SubSeq(text, 1, Min(n, Len(text)))

\* text[-n:] for n > 0
SliceLast(text, n) == SubSeq(text, Max(1, Len(text) - n + 1), Len(text))

\* c * n : the empty string when n <= 0
Repeat(c, n) == [i \in 1..Max(n, 0) |-> c]

DigitChars == {"0", "1", "2", "3", "4", "5", "6", "7", "8", "9"}

\* d.isdigit()
isdigit(c) == c \in DigitChars

\* int(d) of a digit character
int(c) ==
  CASE c = "0" -> 0 [] c = "1" -> 1 [] c = "2" -> 2 [] c = "3" -> 3
    [] c = "4" -> 4 [] c = "5" -> 5 [] c = "6" -> 6 [] c = "7" -> 7
    [] c = "8" -> 8 [] c = "9" -> 9

(***************************************************************************)
(* _mask_text                                                              *)
(***************************************************************************)

\* a slip in the length test: a text of exactly 4 characters is not replaced
mask_text_mutant(text) ==
  IF Len(text) < 4
  THEN <<"*", "*", "*", "*">>
  ELSE LET visible == Max(2, Len(text) \div 8)
       IN  SliceTo(text, visible)
             \o Repeat("*", Len(text) - visible * 2)
             \o SliceLast(text, visible)

_mask_text(text) ==
  IF Len(text) <= 4
  THEN <<"*", "*", "*", "*">>
  ELSE LET visible == Max(2, Len(text) \div 8)
       IN  SliceTo(text, visible)
             \o Repeat("*", Len(text) - visible * 2)
             \o SliceLast(text, visible)

(***************************************************************************)
(* luhn_check                                                              *)
(***************************************************************************)

\* [int(d) for d in num_str if d.isdigit()]
RECURSIVE luhn_digits(_)
luhn_digits(num_str) ==
  IF num_str = <<>> THEN <<>>
  ELSE (IF isdigit(Head(num_str)) THEN <<int(Head(num_str))>> ELSE <<>>)
         \o luhn_digits(Tail(num_str))

\* reversed(digits)
reversed(s) == [i \in 1..Len(s) |-> s[Len(s) - i + 1]]

\* the loop of luhn_check over enumerate(rev) from index i on, checksum so far
RECURSIVE luhn_loop(_, _, _)
luhn_loop(rev, i, checksum) ==
  IF i >= Len(rev) THEN checksum
  ELSE LET d  == rev[i + 1]
           d2 == IF i % 2 = 1
                 THEN (IF d * 2 > 9 THEN d * 2 - 9 ELSE d * 2)
                 ELSE d
       IN  luhn_loop(rev, i + 1, checksum + d2)

\* a slip in the bounds: 19 digits are rejected
luhn_check_mutant(num_str) ==
  LET digits == luhn_digits(num_str)
  IN  IF Len(digits) < 13 \/ Len(digits) >= 19
      THEN FALSE
      ELSE luhn_loop(reversed(digits), 0, 0) % 10 = 0

luhn_check(num_str) ==
  LET digits == luhn_digits(num_str)
  IN  IF Len(digits) < 13 \/ Len(digits) > 19
      THEN FALSE
      ELSE luhn_loop(reversed(digits), 0, 0) % 10 = 0

(***************************************************************************)
(* _bbox_to_pixels                                                         *)
(*                                                                         *)
(* A Vision bounding box is normalized to the image (0.0 .. 1.0, origin at *)
(* the bottom-left).  The model holds its four numbers as multiples of     *)
(* 1/BoxGrid: the box [x |-> 1, y |-> 0, w |-> 2, h |-> 1] with BoxGrid 4  *)
(* is origin (0.25, 0.0), size (0.5, 0.25).                                *)
(***************************************************************************)

BoxGrid == 4

\* int(num / den) of Python: truncation toward zero
PyInt(num, den) ==
  IF num >= 0 THEN num \div den ELSE -((-num) \div den)

\* a slip in the clamp: the width is limited to the image, not to what is left
\* of it to the right of x
bbox_to_pixels_mutant(bbox, img_w, img_h, padding) ==
  LET x0 == PyInt(bbox.x * img_w, BoxGrid) - padding
      y0 == PyInt((BoxGrid - bbox.y - bbox.h) * img_h, BoxGrid) - padding
      w0 == PyInt(bbox.w * img_w, BoxGrid) + padding * 2
      h0 == PyInt(bbox.h * img_h, BoxGrid) + padding * 2
      x  == Max(0, x0)
      y  == Max(0, y0)
      w  == Min(w0, img_w)
      h  == Min(h0, img_h - y)
  IN  <<x, y, w, h>>

_bbox_to_pixels(bbox, img_w, img_h, padding) ==
  LET x0 == PyInt(bbox.x * img_w, BoxGrid) - padding
      y0 == PyInt((BoxGrid - bbox.y - bbox.h) * img_h, BoxGrid) - padding
      w0 == PyInt(bbox.w * img_w, BoxGrid) + padding * 2
      h0 == PyInt(bbox.h * img_h, BoxGrid) + padding * 2
      \* Clamp to image bounds
      x  == Max(0, x0)
      y  == Max(0, y0)
      w  == Min(w0, img_w - x)
      h  == Min(h0, img_h - y)
  IN  <<x, y, w, h>>

(***************************************************************************)
(* _apply_mosaic, with the PIL operations it is made of.                   *)
(*                                                                         *)
(* An image is [w, h, px]: its size and its pixels, px[<<i, j>>] being the *)
(* value at column i, row j (0-based, top-left origin).                    *)
(***************************************************************************)

Pixels(w, h) == (0..(w - 1)) \X (0..(h - 1))

InImage(img, p) == p[1] >= 0 /\ p[1] < img.w /\ p[2] >= 0 /\ p[2] < img.h

\* Image.crop(box), box = (left, upper, right, lower); PIL fills what lies
\* outside the image with 0
crop(img, box) ==
  LET w == box[3] - box[1]
      h == box[4] - box[2]
  IN  [w |-> w, h |-> h,
       px |-> [p \in Pixels(w, h) |->
                 LET q == <<box[1] + p[1], box[2] + p[2]>>
                 IN  IF InImage(img, q) THEN img.px[q] ELSE 0]]

\* the source index of output index i when n_in samples are scaled to n_out
\* with Image.NEAREST: the sample under the centre of output pixel i
nearest(i, n_in, n_out) == ((2 * i + 1) * n_in) \div (2 * n_out)

\* Image.resize((w, h), Image.NEAREST)
resize(img, w, h) ==
  [w |-> w, h |-> h,
   px |-> [p \in Pixels(w, h) |->
             img.px[<<nearest(p[1], img.w, w), nearest(p[2], img.h, h)>>]]]

\* Image.paste(src, (x, y)), in place: the image afterwards
paste(img, src, x, y) ==
  [img EXCEPT !.px =
     [p \in Pixels(img.w, img.h) |->
        LET q == <<p[1] - x, p[2] - y>>
        IN  IF InImage(src, q) THEN src.px[q] ELSE img.px[p]]]

\* a slip in the paste position: the mosaic is pasted at the image's origin
apply_mosaic_mutant_paste(img, region, block_size) ==
  LET x == region.x
      y == region.y
      w == region.w
      h == region.h
      box == <<x, y, x + w, y + h>>
      cropped == crop(img, box)
      small_w == Max(1, w \div block_size)
      small_h == Max(1, h \div block_size)
      small == resize(cropped, small_w, small_h)
      mosaic == resize(small, w, h)
  IN  paste(img, mosaic, 0, 0)

\* a slip in the small size: a region narrower or lower than one block is
\* scaled to its own size, which leaves it as it was
apply_mosaic_mutant_small(img, region, block_size) ==
  LET x == region.x
      y == region.y
      w == region.w
      h == region.h
      box == <<x, y, x + w, y + h>>
      cropped == crop(img, box)
      small_w == IF w < block_size THEN w ELSE w \div block_size
      small_h == IF h < block_size THEN h ELSE h \div block_size
      small == resize(cropped, small_w, small_h)
      mosaic == resize(small, w, h)
  IN  paste(img, mosaic, x, y)

\* a slip in the small size: the number of blocks is rounded up
apply_mosaic_mutant_ceil(img, region, block_size) ==
  LET x == region.x
      y == region.y
      w == region.w
      h == region.h
      box == <<x, y, x + w, y + h>>
      cropped == crop(img, box)
      small_w == Max(1, (w + block_size - 1) \div block_size)
      small_h == Max(1, (h + block_size - 1) \div block_size)
      small == resize(cropped, small_w, small_h)
      mosaic == resize(small, w, h)
  IN  paste(img, mosaic, x, y)

\* the image after _apply_mosaic(img, region, block_size)
_apply_mosaic(img, region, block_size) ==
  LET x == region.x
      y == region.y
      w == region.w
      h == region.h
      box == <<x, y, x + w, y + h>>
      cropped == crop(img, box)
      small_w == Max(1, w \div block_size)
      small_h == Max(1, h \div block_size)
      small == resize(cropped, small_w, small_h)
      mosaic == resize(small, w, h)
  IN  paste(img, mosaic, x, y)

(***************************************************************************)
(* Generated images                                                        *)
(***************************************************************************)

MaxImgW == 5

MaxImgH == 4

ImageKinds == {"flat", "columns", "pairs", "rows", "checker", "ramp"}

\* the value of pixel (i, j) of the generated image of a kind
GenPixel(kind, i, j) ==
  CASE kind = "flat"    -> 7
    [] kind = "columns" -> i
    [] kind = "pairs"   -> (i \div 2) % 2
    [] kind = "rows"    -> j
    [] kind = "checker" -> (i + j) % 2
    [] kind = "ramp"    -> i + 10 * j

GenImage(kind, w, h) ==
  [w |-> w, h |-> h, px |-> [p \in Pixels(w, h) |-> GenPixel(kind, p[1], p[2])]]

(***************************************************************************)
(* RedactConfig (config.py) and the patterns                               *)
(*                                                                         *)
(* A pattern is [name, regex].  The model does not run regular             *)
(* expressions: `regex' names one, re.compile is whether it is well        *)
(* formed, and finditer is a table of the matches Python's re finds in the *)
(* sample texts below.                                                     *)
(***************************************************************************)

DefaultPatternNames ==
  <<"credit_card", "openai_key", "anthropic_key", "google_key", "aws_key",
    "github_token", "generic_secret", "email">>

\* DEFAULT_REDACT_PATTERNS, in the order of the dict
DEFAULT_REDACT_PATTERNS ==
  [i \in 1..Len(DefaultPatternNames) |->
     [name |-> DefaultPatternNames[i], regex |-> DefaultPatternNames[i]]]

\* [redact.extra_patterns] of the config file: a pattern for card numbers that
\* are shown partly masked, \d{2}\*{4,}\d{2}, and one that does not compile
ExtraMaskedPan == [name |-> "masked_pan", regex |-> "masked_pan"]

ExtraBroken == [name |-> "broken", regex |-> "("]

\* re.compile(pattern) raises re.error
MalformedRegex(regex) == regex = "("

\* RedactConfig()
DefaultRedactConfig ==
  [enabled |-> FALSE, patterns |-> DEFAULT_REDACT_PATTERNS, block_size |-> 10,
   padding |-> 6, disabled_patterns |-> {}]

MaxPadding == 2

MaxBlock == 3

RedactConfigs ==
  [enabled : BOOLEAN,
   patterns : {DEFAULT_REDACT_PATTERNS,
               DEFAULT_REDACT_PATTERNS \o <<ExtraMaskedPan>>,
               DEFAULT_REDACT_PATTERNS \o <<ExtraBroken, ExtraMaskedPan>>},
   block_size : {1, 2, 10},
   padding : {0, 1, 6},
   disabled_patterns : {{}, {"email"}}]

(***************************************************************************)
(* OCR observations (what _ocr_image returns) and the matches in them      *)
(***************************************************************************)

TextVisa == <<"4", "1", "1", "1", " ", "1", "1", "1", "1", " ", "1", "1", "1", "1", " ", "1", "1", "1", "1">>

TextNotLuhn == <<"1", "2", "3", "4", " ", "5", "6", "7", "8", " ", "9", "0", "1", "2", " ", "3", "4", "5", "6">>

TextEmail == <<"u", "s", "e", "r", "@", "e", "x", "a", "m", "p", "l", "e", ".", "c", "o", "m">>

TextMaskedPan == <<"4", "1", "*", "*", "*", "*", "*", "*", "*", "*", "1", "1">>

TextPlain == <<"h", "e", "l", "l", "o", " ", "w", "o", "r", "l", "d">>

TextCardAndEmail == <<"c", "a", "r", "d", " ", "4", "1", "1", "1", "1", "1", "1", "1", "1", "1", "1", "1", "1", "1", "1", "1", " ", "a", "@", "b", ".", "c", "o">>

\* compiled.finditer(text): the (start, end) of each match, as Python's re
\* finds them with re.IGNORECASE
MatchTable ==
  { [regex |-> "credit_card", text |-> TextVisa,         spans |-> << <<0, 19>> >>],
    [regex |-> "credit_card", text |-> TextNotLuhn,      spans |-> << <<0, 19>> >>],
    [regex |-> "email",       text |-> TextEmail,        spans |-> << <<0, 16>> >>],
    [regex |-> "masked_pan",  text |-> TextMaskedPan,    spans |-> << <<0, 12>> >>],
    [regex |-> "credit_card", text |-> TextCardAndEmail, spans |-> << <<5, 22>> >>],
    [regex |-> "email",       text |-> TextCardAndEmail, spans |-> << <<22, 28>> >>] }

finditer(regex, text) ==
  LET hits == {e \in MatchTable : e.regex = regex /\ e.text = text}
  IN  IF hits = {} THEN <<>> ELSE (CHOOSE e \in hits : TRUE).spans

\* match.group() of the match at span m of text
group(text, m) == SubSeq(text, m[1] + 1, m[2])

Box(x, y, w, h) == [x |-> x, y |-> y, w |-> w, h |-> h]

\* An observation: its text, its bounding box and its candidate, whose
\* boundingBoxForRange_error_ answers with a rectangle ("ok"), with no
\* rectangle ("none"), with an error ("err"), or raises ("raise").
Observation(text, bbox, range, range_bbox) ==
  [text |-> text, bbox |-> bbox,
   candidate |-> [range |-> range, bbox |-> range_bbox]]

Observations ==
  { Observation(TextVisa,         Box(1, 1, 2, 1), "ok",    Box(1, 1, 1, 1)),
    Observation(TextNotLuhn,      Box(0, 0, 4, 1), "none",  Box(0, 0, 0, 0)),
    Observation(TextEmail,        Box(0, 3, 2, 1), "raise", Box(0, 0, 0, 0)),
    Observation(TextEmail,        Box(4, 0, 0, 1), "none",  Box(0, 0, 0, 0)),
    Observation(TextMaskedPan,    Box(2, 2, 2, 2), "err",   Box(2, 2, 1, 1)),
    Observation(TextCardAndEmail, Box(0, 1, 4, 2), "ok",    Box(1, 1, 3, 2)),
    Observation(TextPlain,        Box(0, 0, 4, 4), "ok",    Box(0, 0, 4, 4)) }

MaxOcrResults == 2

\* the lists of at most MaxOcrResults observations
ObservationLists ==
  UNION {[1..n -> Observations] : n \in 0..MaxOcrResults}

(***************************************************************************)
(* _find_sensitive_regions                                                 *)
(***************************************************************************)

\* the concatenation of a sequence of sequences
RECURSIVE Concat(_)
Concat(seqs) ==
  IF seqs = <<>> THEN <<>> ELSE Head(seqs) \o Concat(Tail(seqs))

SensitiveRegion(x, y, w, h, pattern_name, matched_text) ==
  [x |-> x, y |-> y, w |-> w, h |-> h, pattern_name |-> pattern_name,
   matched_text |-> matched_text]

\* the patterns that are compiled: those not disabled whose regex compiles
\* a slip in the compile loop: the first pattern that does not compile ends
\* the loop (break for continue), so the patterns after it are lost
active_patterns_mutant(cfg) ==
  LET bad == {i \in 1..Len(cfg.patterns) : MalformedRegex(cfg.patterns[i].regex)
                /\ cfg.patterns[i].name \notin cfg.disabled_patterns}
      stop == IF bad = {} THEN Len(cfg.patterns)
              ELSE (CHOOSE i \in bad : \A j \in bad : i <= j) - 1
  IN  SelectSeq(SubSeq(cfg.patterns, 1, stop),
                LAMBDA p : p.name \notin cfg.disabled_patterns)

\* active_patterns: the patterns whose name is not disabled and whose regex
\* compiles, in the order of config.patterns
active_patterns(cfg) ==
  SelectSeq(cfg.patterns,
            LAMBDA p : p.name \notin cfg.disabled_patterns
                         /\ ~MalformedRegex(p.regex))

\* the box used for a match: the candidate's box for the matched range when
\* it gives one without error, the observation's box otherwise
match_bbox(obs) ==
  IF obs.candidate.range = "ok" THEN obs.candidate.bbox ELSE obs.bbox

\* a slip in the validation: the Luhn check is skipped
match_regions_mutant_luhn(obs, name, m, img_w, img_h, cfg) ==
  LET matched_text == group(obs.text, m)
      px == _bbox_to_pixels(match_bbox(obs), img_w, img_h, cfg.padding)
  IN  IF px[3] > 0 /\ px[4] > 0
      THEN <<SensitiveRegion(px[1], px[2], px[3], px[4], name,
                             _mask_text(matched_text))>>
      ELSE <<>>

\* a slip in the logging field: the matched text is stored as it is
match_regions_mutant_raw(obs, name, m, img_w, img_h, cfg) ==
  LET matched_text == group(obs.text, m)
  IN  IF name = "credit_card" /\ ~luhn_check(matched_text)
      THEN <<>>
      ELSE LET px == _bbox_to_pixels(match_bbox(obs), img_w, img_h,
                                     cfg.padding)
           IN  IF px[3] > 0 /\ px[4] > 0
               THEN <<SensitiveRegion(px[1], px[2], px[3], px[4], name,
                                      matched_text)>>
               ELSE <<>>

\* a slip in the filter: a rectangle of no width or height is kept
match_regions_mutant_filter(obs, name, m, img_w, img_h, cfg) ==
  LET matched_text == group(obs.text, m)
  IN  IF name = "credit_card" /\ ~luhn_check(matched_text)
      THEN <<>>
      ELSE LET px == _bbox_to_pixels(match_bbox(obs), img_w, img_h,
                                     cfg.padding)
           IN  IF px[3] >= 0 /\ px[4] >= 0
               THEN <<SensitiveRegion(px[1], px[2], px[3], px[4], name,
                                      _mask_text(matched_text))>>
               ELSE <<>>

\* the body of the loop over the matches: the regions appended for match m
\* of pattern `name' in observation `obs' (result in the code) (none or one)
match_regions(obs, name, m, img_w, img_h, cfg) ==
  LET matched_text == group(obs.text, m)
  IN  \* Extra validation: credit card must pass Luhn check
      IF name = "credit_card" /\ ~luhn_check(matched_text)
      THEN <<>>
      ELSE LET px == _bbox_to_pixels(match_bbox(obs), img_w, img_h,
                                     cfg.padding)
           IN  IF px[3] > 0 /\ px[4] > 0
               THEN <<SensitiveRegion(px[1], px[2], px[3], px[4], name,
                                      _mask_text(matched_text))>>
               ELSE <<>>

_find_sensitive_regions(results, img_w, img_h, cfg) ==
  LET active == active_patterns(cfg)
      of_pattern(obs, p) ==
        LET ms == finditer(p.regex, obs.text)
        IN  Concat([k \in 1..Len(ms) |->
                      match_regions(obs, p.name, ms[k], img_w, img_h, cfg)])
      of_result(obs) ==
        Concat([j \in 1..Len(active) |-> of_pattern(obs, active[j])])
  IN  Concat([i \in 1..Len(results) |-> of_result(results[i])])

(***************************************************************************)
(* redact_image, stage by stage                                            *)
(***************************************************************************)

ShotPath == "shot.png"

OutPath == "out.png"

\* the screenshot the call is given
ShotImage == GenImage("ramp", MaxImgW, MaxImgH)

NoResult == [kind |-> "none", path |-> None, regions |-> <<>>]

Returns(path, rs) == [kind |-> "return", path |-> path, regions |-> rs]

Raises == [kind |-> "raise", path |-> None, regions |-> <<>>]

\* a or b, for a path or None
PyOr(a, b) == IF a # None THEN a ELSE b

RedactIdle ==
  /\ pc = "idle"
  /\ image_path = None
  /\ output_path = None
  /\ config = DefaultRedactConfig
  /\ files = (ShotPath :> ShotImage)
  /\ saved = {}
  /\ ocr_runs = 0
  /\ ocr_results = <<>>
  /\ img_size = <<0, 0>>
  /\ regions = <<>>
  /\ result = NoResult

\* no CaptureSession has been constructed
NoSession ==
  [initial_window_id |-> 0, pid |-> 0, owner |-> "", output_dir |-> None,
   fmt |-> None, delay_ms |-> 0, manual_only |-> FALSE,
   on_capture |-> [kind |-> None], _counter |-> 0, _running |-> FALSE,
   _tap |-> None, built |-> FALSE, raised |-> None]

SessionIdle ==
  /\ session = NoSession
  /\ windows = <<>>
  /\ shots = <<>>
  /\ handled = <<>>

\* redact_image(image_path, config, output_path) is called; config None
\* stands for RedactConfig()
CallRedactImage ==
  /\ pc = "idle"
  /\ \E cfg \in RedactConfigs \cup {DefaultRedactConfig},
        out \in {None, OutPath} :
       /\ image_path' = ShotPath
       /\ config' = cfg
       /\ output_path' = out
  /\ pc' = "Disabled"
  /\ UNCHANGED <<sessionVars, call, files, saved, ocr_runs, ocr_results, img_size, regions,
                 result>>

\* if not config.enabled: return (output_path or image_path), []
CheckEnabled ==
  /\ pc = "Disabled"
  /\ IF ~config.enabled
     THEN /\ result' = Returns(PyOr(output_path, image_path), <<>>)
          /\ pc' = "Done"
     ELSE /\ pc' = "OCR"
          /\ UNCHANGED result
  /\ UNCHANGED <<sessionVars, call, image_path, output_path, config, files, saved, ocr_runs,
                 ocr_results, img_size, regions>>

\* what _ocr_image can do on an image: raise (Vision cannot be imported, or a
\* framework call fails), return no results with size (0, 0) (the image
\* cannot be loaded) or with the image's size (the request failed), or return
\* the observations found
OcrOutcomes(img) ==
  {[kind |-> "raise", results |-> <<>>, size |-> <<0, 0>>],
   [kind |-> "return", results |-> <<>>, size |-> <<0, 0>>]}
  \cup {[kind |-> "return", results |-> rs, size |-> <<img.w, img.h>>] :
          rs \in ObservationLists}

\* ocr_results, (img_w, img_h) = _ocr_image(image_path)
RunOcr ==
  /\ pc = "OCR"
  /\ ocr_runs' = ocr_runs + 1
  /\ \E o \in OcrOutcomes(files[image_path]) :
       IF o.kind = "raise"
       THEN /\ result' = Raises
            /\ pc' = "Done"
            /\ UNCHANGED <<ocr_results, img_size>>
       ELSE /\ ocr_results' = o.results
            /\ img_size' = o.size
            /\ IF o.results = <<>>
               THEN /\ result' = Returns(PyOr(output_path, image_path), <<>>)
                    /\ pc' = "Done"
               ELSE /\ pc' = "Match"
                    /\ UNCHANGED result
  /\ UNCHANGED <<sessionVars, call, image_path, output_path, config, files, saved, regions>>

\* a slip in the early return: the call goes on to the mosaic stage with no
\* region
FindRegions_mutant ==
  /\ pc = "Match"
  /\ regions' = _find_sensitive_regions(ocr_results, img_size[1], img_size[2],
                                        config)
  /\ pc' = "Mosaic"
  /\ UNCHANGED <<sessionVars, call, image_path, output_path, config, files, saved, ocr_runs,
                 ocr_results, img_size, result>>

\* regions = _find_sensitive_regions(ocr_results, img_w, img_h, config)
FindRegions ==
  /\ pc = "Match"
  /\ regions' = _find_sensitive_regions(ocr_results, img_size[1], img_size[2],
                                        config)
  /\ IF regions' = <<>>
     THEN /\ result' = Returns(PyOr(output_path, image_path), <<>>)
          /\ pc' = "Done"
     ELSE /\ pc' = "Mosaic"
          /\ UNCHANGED result
  /\ UNCHANGED <<sessionVars, call, image_path, output_path, config, files, saved, ocr_runs,
                 ocr_results, img_size>>

\* for region in regions: _apply_mosaic(img, region, config.block_size)
RECURSIVE mosaic_all(_, _, _)
mosaic_all(img, rs, block_size) ==
  IF rs = <<>> THEN img
  ELSE mosaic_all(_apply_mosaic(img, Head(rs), block_size), Tail(rs),
                  block_size)

\* the image is opened, every region is pixelated, the image is saved
ApplyMosaics ==
  /\ pc = "Mosaic"
  /\ LET img == mosaic_all(files[image_path], regions, config.block_size)
         save_path == PyOr(output_path, image_path)
     IN  /\ files' = (save_path :> img) @@ files
         /\ saved' = saved \cup {save_path}
         /\ result' = Returns(save_path, regions)
  /\ pc' = "Done"
  /\ UNCHANGED <<sessionVars, call, image_path, output_path, config, ocr_runs, ocr_results,
                 img_size, regions>>

Init ==
  /\ call = NoCall
  /\ RedactIdle
  /\ SessionIdle

Next ==
  \/ CallRedactImage
  \/ CheckEnabled
  \/ RunOcr
  \/ FindRegions
  \/ ApplyMosaics

Spec == Init /\ [][Next]_vars

(***************************************************************************)
(* Calls of the pure functions: the arguments are drawn when the call is   *)
(* made, the function is applied when it runs.                             *)
(***************************************************************************)

Invoke(fn, args, ret0) ==
  [fn |-> fn, args |-> args, returned |-> FALSE, ret |-> ret0]

Return(value) ==
  /\ call' = [call EXCEPT !.returned = TRUE, !.ret = value]
  /\ UNCHANGED <<redactVars, sessionVars>>

Running(fn) == call.fn = fn /\ ~call.returned

Returned(fn) == call.fn = fn /\ call.returned

(***************************************************************************)
(* _mask_text on texts of 0 .. MaxTextLen characters                       *)
(***************************************************************************)

MaxTextLen == 25

MaxStride == 2

TextAlphabet == <<"s", "k", "-", "4", "*">>

\* the text of n characters that walks the alphabet from s in steps of k
GenText(n, k, s) ==
  [i \in 1..n |-> TextAlphabet[((i * k + s) % Len(TextAlphabet)) + 1]]

MaskInputs ==
  {GenText(n, k, s) : n \in 0..MaxTextLen, k \in 0..MaxStride,
                      s \in 0..(Len(TextAlphabet) - 1)}

\* the texts of the examples in the docstring of _mask_text
MaskExampleCard ==
  <<"4", "5", "3", "2", "1", "2", "3", "4", "5", "6", "7", "8", "9", "0",
    "1", "2">>

MaskExampleKey ==
  <<"s", "k", "-", "a", "b", "c", "1", "2", "3", "x", "y", "z">>

MaskExampleShort == <<"s", "h", "o", "r", "t">>

MaskExamples == {MaskExampleCard, MaskExampleKey, MaskExampleShort}

InitMask ==
  /\ RedactIdle
  /\ SessionIdle
  /\ call \in {Invoke("_mask_text", <<t>>, <<>>) :
                t \in MaskInputs \cup MaskExamples}

Call_mask_text ==
  /\ Running("_mask_text")
  /\ Return(_mask_text(call.args[1]))

NextMask == Call_mask_text

SpecMask == InitMask /\ [][NextMask]_vars

(***************************************************************************)
(* luhn_check on strings of 0 .. MaxDigits digits, bare or grouped in      *)
(* fours by a separator                                                    *)
(***************************************************************************)

MaxDigits == 20

DigitString == <<"0", "1", "2", "3", "4", "5", "6", "7", "8", "9">>

\* the n digits that start at b and step by a, modulo 10
GenDigits(n, a, b) == [i \in 1..n |-> DigitString[((a * i + b) % 10) + 1]]

RECURSIVE WithSep(_, _, _)
WithSep(ds, sep, i) ==
  IF i > Len(ds) THEN <<>>
  ELSE <<ds[i]>> \o (IF i % 4 = 0 /\ i < Len(ds) THEN sep ELSE <<>>)
         \o WithSep(ds, sep, i + 1)

Separators == {<<>>, <<" ">>, <<"-">>, <<"x">>, <<" ", "-">>}

KnownCards ==
  { <<"4","1","1","1","1","1","1","1","1","1","1","1","1","1","1","1">>,
    <<"5","5","0","0","0","0","0","0","0","0","0","0","0","0","0","4">>,
    <<"1","2","3","4","5","6","7","8","9","0","1","2","3","4","5","6">> }

LuhnInputs ==
  {WithSep(ds, sep, 1) :
     ds \in {GenDigits(n, a, b) : n \in 0..MaxDigits, a \in 0..MaxStride,
                                  b \in 0..9} \cup KnownCards,
     sep \in Separators}

InitLuhn ==
  /\ RedactIdle
  /\ SessionIdle
  /\ call \in {Invoke("luhn_check", <<t>>, FALSE) : t \in LuhnInputs}

Call_luhn_check ==
  /\ Running("luhn_check")
  /\ Return(luhn_check(call.args[1]))

NextLuhn == Call_luhn_check

SpecLuhn == InitLuhn /\ [][NextLuhn]_vars

(***************************************************************************)
(* Claims about _mask_text and luhn_check                                  *)
(***************************************************************************)

ClaimDigitsOf(s) == SelectSeq(s, LAMBDA c : c \in DigitChars)

\* the Luhn sum of the digit string ds over the positions 0 .. j counted from
\* its right end: the digit at an odd position is doubled, and 9 is taken off
\* a doubled value above 9
RECURSIVE ClaimLuhnSum(_, _)
ClaimLuhnSum(ds, j) ==
  IF j < 0 THEN 0
  ELSE LET d == int(ds[Len(ds) - j])
           t == IF j % 2 = 0 THEN d
                ELSE IF 2 * d > 9 THEN 2 * d - 9 ELSE 2 * d
       IN  t + ClaimLuhnSum(ds, j - 1)

\* C7: luhn_check(s) is true exactly when the digit characters of s number 13
\* to 19 and their Luhn sum is divisible by 10, and it is the value of
\* luhn_check on the digit characters alone (separators play no part).
C7_LuhnExact ==
  Returned("luhn_check") =>
    LET s  == call.args[1]
        ds == ClaimDigitsOf(s)
        n  == Len(ds)
    IN  /\ call.ret = (n >= 13 /\ n <= 19 /\ ClaimLuhnSum(ds, n - 1) % 10 = 0)
        /\ call.ret = luhn_check(ds)
        /\ (n < 13 \/ n > 19) => call.ret = FALSE

\* a string of 19 digits with separators between them passed the check
C7_Witness ==
  /\ Returned("luhn_check")
  /\ call.ret = TRUE
  /\ Len(ClaimDigitsOf(call.args[1])) = 19
  /\ Len(call.args[1]) > 19

(***************************************************************************)
(* _bbox_to_pixels on normalized boxes, image sizes and paddings           *)
(***************************************************************************)

\* origin and size in 0 .. 1 (in units of 1/BoxGrid), origin + size at most 1
NormalizedBoxes ==
  {b \in [x : 0..BoxGrid, y : 0..BoxGrid, w : 0..BoxGrid, h : 0..BoxGrid] :
     b.x + b.w <= BoxGrid /\ b.y + b.h <= BoxGrid}

InitBbox ==
  /\ RedactIdle
  /\ SessionIdle
  /\ \E b \in NormalizedBoxes, iw \in 1..MaxImgW, ih \in 1..MaxImgH,
        pad \in 0..MaxPadding :
       call = Invoke("_bbox_to_pixels", <<b, iw, ih, pad>>, <<0, 0, 0, 0>>)

Call_bbox_to_pixels ==
  /\ Running("_bbox_to_pixels")
  /\ Return(_bbox_to_pixels(call.args[1], call.args[2], call.args[3],
                            call.args[4]))

NextBbox == Call_bbox_to_pixels

SpecBbox == InitBbox /\ [][NextBbox]_vars

\* C8: for every normalized bounding box, image size and padding >= 0 the
\* rectangle (x, y, w, h) returned by _bbox_to_pixels has x >= 0, y >= 0,
\* w >= 0, h >= 0, x + w <= img_w and y + h <= img_h.
C8_BboxInsideImage ==
  Returned("_bbox_to_pixels") =>
    LET img_w == call.args[2]
        img_h == call.args[3]
        x == call.ret[1]
        y == call.ret[2]
        w == call.ret[3]
        h == call.ret[4]
    IN  /\ x >= 0 /\ y >= 0 /\ w >= 0 /\ h >= 0
        /\ x + w <= img_w
        /\ y + h <= img_h

\* a box away from the left and top edges, padded beyond the right and bottom
\* edges of the image, was clamped to what is left of the image
C8_Witness ==
  /\ Returned("_bbox_to_pixels")
  /\ call.args[4] > 0
  /\ call.ret[1] > 0 /\ call.ret[2] > 0
  /\ call.ret[3] > 0 /\ call.ret[4] > 0
  /\ call.ret[1] + call.ret[3] = call.args[2]
  /\ call.ret[2] + call.ret[4] = call.args[3]
  /\ PyInt(call.args[1].w * call.args[2], BoxGrid) + 2 * call.args[4]
       > call.ret[3]

(***************************************************************************)
(* _apply_mosaic on small images, regions inside them and block sizes      *)
(***************************************************************************)

\* the regions of positive size inside a w by h image
RegionsInside(w, h) ==
  {r \in [x : 0..(w - 1), y : 0..(h - 1), w : 1..w, h : 1..h] :
     r.x + r.w <= w /\ r.y + r.h <= h}

InitMosaic ==
  /\ RedactIdle
  /\ SessionIdle
  /\ \E w \in 1..MaxImgW, h \in 1..MaxImgH, k \in ImageKinds,
        b \in 1..MaxBlock :
       \E r \in RegionsInside(w, h) :
         call = Invoke("_apply_mosaic", <<GenImage(k, w, h), r, b>>,
                       GenImage(k, w, h))

Call_apply_mosaic ==
  /\ Running("_apply_mosaic")
  /\ Return(_apply_mosaic(call.args[1], call.args[2], call.args[3]))

NextMosaic == Call_apply_mosaic

SpecMosaic == InitMosaic /\ [][NextMosaic]_vars

\* pixel p lies in the rectangle [x, x+w) x [y, y+h) of region r
ClaimInRegion(r, p) ==
  p[1] >= r.x /\ p[1] < r.x + r.w /\ p[2] >= r.y /\ p[2] < r.y + r.h

\* C9: _apply_mosaic leaves every pixel outside the target rectangle as it
\* was and does not change the size of the image.
C9_MosaicFrame ==
  Returned("_apply_mosaic") =>
    LET before == call.args[1]
        after  == call.ret
        r      == call.args[2]
    IN  /\ after.w = before.w
        /\ after.h = before.h
        /\ DOMAIN after.px = DOMAIN before.px
        /\ \A p \in Pixels(before.w, before.h) :
             ~ClaimInRegion(r, p) => after.px[p] = before.px[p]

\* a mosaic changed a pixel inside a region that does not cover the image
C9_Witness ==
  /\ Returned("_apply_mosaic")
  /\ \E p \in Pixels(call.args[1].w, call.args[1].h) :
       ~ClaimInRegion(call.args[2], p)
  /\ \E p \in Pixels(call.args[1].w, call.args[1].h) :
       ClaimInRegion(call.args[2], p) /\ call.ret.px[p] # call.args[1].px[p]

\* the pixels of region r do not all have one value
ClaimNonUniform(img, r) ==
  \E p, q \in Pixels(img.w, img.h) :
    ClaimInRegion(r, p) /\ ClaimInRegion(r, q) /\ img.px[p] # img.px[q]

\* some pixel of region r has another value after the call
ClaimChanged(before, after, r) ==
  \E p \in Pixels(before.w, before.h) :
    ClaimInRegion(r, p) /\ after.px[p] # before.px[p]

\* C10 as stated: every non-uniform region is changed by a mosaic of
\* block_size > 1.
C10_Original ==
  (Returned("_apply_mosaic") /\ call.args[3] > 1
     /\ ClaimNonUniform(call.args[1], call.args[2]))
    => ClaimChanged(call.args[1], call.ret, call.args[2])

\* the cell of the max(1, w div b) by max(1, h div b) grid that pixel p of
\* region r is filled from when the small image is scaled back to w by h
ClaimCell(r, b, p) ==
  LET gw == IF r.w \div b >= 1 THEN r.w \div b ELSE 1
      gh == IF r.h \div b >= 1 THEN r.h \div b ELSE 1
  IN  <<((2 * (p[1] - r.x) + 1) * gw) \div (2 * r.w),
        ((2 * (p[2] - r.y) + 1) * gh) \div (2 * r.h)>>

\* two pixels of one cell of region r differ
ClaimNonUniformCell(img, r, b) ==
  \E p, q \in Pixels(img.w, img.h) :
    /\ ClaimInRegion(r, p) /\ ClaimInRegion(r, q)
    /\ ClaimCell(r, b, p) = ClaimCell(r, b, q)
    /\ img.px[p] # img.px[q]

\* C10 (amended): for every block_size > 1 and every region in which some
\* cell of the mosaic grid holds two pixels of different value, at least one
\* pixel inside the region differs after _apply_mosaic.
C10_ChangedWhenCellNonUniform ==
  (Returned("_apply_mosaic") /\ call.args[3] > 1
     /\ ClaimNonUniformCell(call.args[1], call.args[2], call.args[3]))
    => ClaimChanged(call.args[1], call.ret, call.args[2])

\* a region narrower than one block, with two values in its one cell, was
\* changed
C10_Witness ==
  /\ Returned("_apply_mosaic")
  /\ call.args[3] > 1
  /\ call.args[2].w < call.args[3]
  /\ ClaimNonUniformCell(call.args[1], call.args[2], call.args[3])
  /\ ClaimChanged(call.args[1], call.ret, call.args[2])

\* the pixels of the image that lie in region r
ClaimRegionPixels(img, r) ==
  {p \in Pixels(img.w, img.h) : ClaimInRegion(r, p)}

\* the size of the grid for a region of w by h and block size b
ClaimGrid(r, b) ==
  <<IF r.w \div b >= 1 THEN r.w \div b ELSE 1,
    IF r.h \div b >= 1 THEN r.h \div b ELSE 1>>

\* C22: after _apply_mosaic with block size b >= 1 on a w by h region the
\* region is the nearest-neighbour enlargement of a max(1, w div b) by
\* max(1, h div b) grid: the pixels filled from one cell of the grid have one
\* value, so the region holds at most that many blocks, and every pixel value
\* in the region is a value some pixel of the region had before the call.
C22_MosaicIsGridOfOldValues ==
  Returned("_apply_mosaic") =>
    LET before == call.args[1]
        after  == call.ret
        r      == call.args[2]
        b      == call.args[3]
        grid   == ClaimGrid(r, b)
        region == ClaimRegionPixels(before, r)
    IN  /\ \A p \in region :
             /\ ClaimCell(r, b, p)[1] \in 0..(grid[1] - 1)
             /\ ClaimCell(r, b, p)[2] \in 0..(grid[2] - 1)
        /\ \A p, q \in region :
             ClaimCell(r, b, p) = ClaimCell(r, b, q)
               => after.px[p] = after.px[q]
        /\ Cardinality({ClaimCell(r, b, p) : p \in region})
             <= grid[1] * grid[2]
        /\ Cardinality({after.px[p] : p \in region}) <= grid[1] * grid[2]
        /\ \A p \in region : \E q \in region : after.px[p] = before.px[q]

\* a region of several blocks that does not divide evenly was pixelated: it
\* holds more than one value and fewer values than before
C22_Witness ==
  /\ Returned("_apply_mosaic")
  /\ call.args[3] > 1
  /\ call.args[2].w % call.args[3] # 0
  /\ ClaimGrid(call.args[2], call.args[3])[1] >= 2
  /\ LET region == ClaimRegionPixels(call.args[1], call.args[2])
     IN  /\ Cardinality({call.ret.px[p] : p \in region}) >= 2
         /\ Cardinality({call.ret.px[p] : p \in region})
              < Cardinality({call.args[1].px[p] : p \in region})

(***************************************************************************)
(* Claims about redact_image and _find_sensitive_regions                   *)
(***************************************************************************)

\* the call has returned or raised
Done == pc = "Done"

\* C1: with config.enabled false, redact_image returns the image_path it was
\* given and an empty region list, whatever the other arguments (a supplied
\* output_path included), without running OCR and without writing a file.
C1_DisabledReturnsImagePath ==
  (Done /\ ~config.enabled) =>
    /\ result = Returns(image_path, <<>>)
    /\ ocr_runs = 0
    /\ saved = {}
    /\ files = (ShotPath :> ShotImage)

\* the matches of the patterns in force in the observations the OCR returned:
\* the pattern's name, the matched text and the pixel rectangle of each
ClaimMatches ==
  {[name |-> config.patterns[j].name,
    raw |-> group(ocr_results[i].text,
                  finditer(config.patterns[j].regex, ocr_results[i].text)[k]),
    px |-> _bbox_to_pixels(match_bbox(ocr_results[i]), img_size[1],
                           img_size[2], config.padding),
    at |-> <<i, j, k>>] :
     <<i, j, k>> \in
       {t \in (1..Len(ocr_results)) \X (1..Len(config.patterns)) \X (1..2) :
          /\ config.patterns[t[2]].name \notin config.disabled_patterns
          /\ ~MalformedRegex(config.patterns[t[2]].regex)
          /\ t[3] <= Len(finditer(config.patterns[t[2]].regex,
                                  ocr_results[t[1]].text))}}

ClaimLuhnOk(raw) ==
  LET ds == ClaimDigitsOf(raw)
  IN  Len(ds) >= 13 /\ Len(ds) <= 19
        /\ ClaimLuhnSum(ds, Len(ds) - 1) % 10 = 0

\* the regions of a pattern name (all names but it, when `is' is false)
ClaimRegionsOf(name, is) ==
  {i \in 1..Len(regions) : (regions[i].pattern_name = name) = is}

\* _find_sensitive_regions has run in this call
RegionsComputed == pc \in {"Mosaic", "Done"} /\ ocr_results # <<>>

\* C2: a region named credit_card is emitted only for a match that passes the
\* Luhn check; a credit_card match that fails it yields no region and no
\* error; the matches of every other pattern are all accepted (each of
\* positive pixel size yields a region).
C2_CreditCardNeedsLuhn ==
  RegionsComputed =>
    /\ \A i \in ClaimRegionsOf("credit_card", TRUE) :
         \E m \in ClaimMatches :
           /\ m.name = "credit_card"
           /\ ClaimLuhnOk(m.raw)
           /\ <<regions[i].x, regions[i].y, regions[i].w, regions[i].h>> = m.px
    /\ Cardinality(ClaimRegionsOf("credit_card", TRUE))
         = Cardinality({m \in ClaimMatches :
                          /\ m.name = "credit_card" /\ ClaimLuhnOk(m.raw)
                          /\ m.px[3] > 0 /\ m.px[4] > 0})
    /\ Cardinality(ClaimRegionsOf("credit_card", FALSE))
         = Cardinality({m \in ClaimMatches :
                          /\ m.name # "credit_card"
                          /\ m.px[3] > 0 /\ m.px[4] > 0})
    /\ result.kind # "raise"

\* the OCR returned a card number that fails the Luhn check and one that
\* passes it, and the call returned the one region of the latter
C2_Witness ==
  /\ Done
  /\ result.kind = "return"
  /\ \E m \in ClaimMatches : m.name = "credit_card" /\ ~ClaimLuhnOk(m.raw)
  /\ \E m \in ClaimMatches : m.name = "credit_card" /\ ClaimLuhnOk(m.raw)
  /\ Cardinality(ClaimRegionsOf("credit_card", TRUE)) = 1
  /\ Len(result.regions) = 1

\* C3: when the OCR step yields nothing because the engine is unavailable or
\* the step raises, redact_image does not raise: it returns an empty region
\* list and leaves the image as it was.
C3_OcrFailureIsNoMatch ==
  (Done /\ config.enabled /\ ocr_runs = 1 /\ ocr_results = <<>>) =>
    /\ result.kind = "return"
    /\ result.regions = <<>>
    /\ saved = {}
    /\ files = (ShotPath :> ShotImage)

\* the order of the stages of one call
StageRank(stage) ==
  CASE stage = "idle" -> 0 [] stage = "Disabled" -> 1 [] stage = "OCR" -> 2
    [] stage = "Match" -> 3 [] stage = "Mosaic" -> 4 [] stage = "Done" -> 5

MosaicConditions ==
  config.enabled /\ ocr_results # <<>> /\ regions # <<>>

ClaimAlreadyMasked(t) ==
  LET n == Len(t)
      v == IF n \div 8 > 2 THEN n \div 8 ELSE 2
  IN  IF n <= 4 THEN t = <<"*", "*", "*", "*">>
      ELSE \A i \in (v + 1)..(n - v) : t[i] = "*"

\* the matches region r can come from: those of its pattern and rectangle
ClaimMatchesOf(r) ==
  {m \in ClaimMatches : m.name = r.pattern_name
                          /\ m.px = <<r.x, r.y, r.w, r.h>>}

\* C5 as stated: the matched_text of every region is _mask_text of the match
\* and differs from the matched text.
C5_Original ==
  RegionsComputed =>
    \A i \in 1..Len(regions) :
      \E m \in ClaimMatchesOf(regions[i]) :
        /\ regions[i].matched_text = _mask_text(m.raw)
        /\ regions[i].matched_text # m.raw

\* C5 (amended): the matched_text of every region is _mask_text of the
\* match; it differs from the matched text unless the matched text already
\* has the masked form ("****", or every character between the first v and
\* the last v is "*").
C5_MaskedUnlessAlreadyMasked ==
  RegionsComputed =>
    \A i \in 1..Len(regions) :
      \E m \in ClaimMatchesOf(regions[i]) :
        /\ regions[i].matched_text = _mask_text(m.raw)
        /\ (regions[i].matched_text = m.raw) = ClaimAlreadyMasked(m.raw)

\* the call returned a region of a card number whose stored text differs from
\* the match, and one of a text that was masked already
C5_Witness ==
  /\ Done
  /\ result.kind = "return"
  /\ \E i \in 1..Len(result.regions) :
       /\ result.regions[i].pattern_name = "credit_card"
       /\ result.regions[i].matched_text
            = <<"4", "1">> \o Repeat("*", 15) \o <<"1", "1">>
  /\ \E i \in 1..Len(result.regions) :
       /\ result.regions[i].pattern_name = "masked_pan"
       /\ result.regions[i].matched_text = TextMaskedPan

(***************************************************************************)
(* The patterns in force (C11)                                             *)
(***************************************************************************)

\* the names of the configured patterns that are not disabled and compile
ClaimPatternsInForce ==
  {config.patterns[j].name : j \in
     {k \in 1..Len(config.patterns) :
        /\ config.patterns[k].name \notin config.disabled_patterns
        /\ ~MalformedRegex(config.patterns[k].regex)}}

\* the matches that are to yield a region: of positive pixel size and, for a
\* card number, passing the Luhn check
ClaimAccepted ==
  {m \in ClaimMatches : /\ m.px[3] > 0 /\ m.px[4] > 0
                        /\ (m.name = "credit_card" => ClaimLuhnOk(m.raw))}

\* C11: the patterns _find_sensitive_regions applies are exactly the
\* configured ones whose name is not disabled and whose regex compiles: every
\* region is of such a pattern, every accepted match of such a pattern has its
\* region even when another configured pattern does not compile, no region
\* carries a disabled name, and the call does not raise.
C11_PatternsInForce ==
  RegionsComputed =>
    /\ \A i \in 1..Len(regions) :
         /\ regions[i].pattern_name \in ClaimPatternsInForce
         /\ regions[i].pattern_name \notin config.disabled_patterns
    /\ \A m \in ClaimAccepted :
         /\ m.name \in ClaimPatternsInForce
         /\ \E i \in 1..Len(regions) :
              /\ regions[i].pattern_name = m.name
              /\ <<regions[i].x, regions[i].y, regions[i].w, regions[i].h>>
                   = m.px
    /\ Len(regions) = Cardinality(ClaimAccepted)
    /\ result.kind # "raise"

\* the configuration has a pattern that does not compile before masked_pan and
\* has email disabled; the OCR returned a masked card number and an e-mail
\* address; the call returned the region of the former and none of the latter
C11_Witness ==
  /\ Done
  /\ result.kind = "return"
  /\ \E j \in 1..Len(config.patterns) : MalformedRegex(config.patterns[j].regex)
  /\ "email" \in config.disabled_patterns
  /\ \E i \in 1..Len(ocr_results) : ocr_results[i].text = TextEmail
  /\ \E i \in 1..Len(ocr_results) : ocr_results[i].text = TextMaskedPan
  /\ Len(result.regions) = 1
  /\ result.regions[1].pattern_name = "masked_pan"

(***************************************************************************)
(* annotate.py.  Coordinates are Python floats; the model holds them as    *)
(* exact fractions <<numerator, denominator>> in lowest terms, so the      *)
(* rounding of the floating-point operations is left out.                  *)
(***************************************************************************)

RECURSIVE Gcd(_, _)
Gcd(a, b) == IF b = 0 THEN a ELSE Gcd(b, a % b)

Abs(a) == IF a < 0 THEN -a ELSE a

\* the fraction n / d, d # 0, in lowest terms with a positive denominator
Q(n, d) ==
  LET g == Gcd(Abs(n), Abs(d))
      sgn == IF d < 0 THEN -1 ELSE 1
  IN  <<sgn * (n \div g), Abs(d) \div g>>

QAdd(a, b) == Q(a[1] * b[2] + b[1] * a[2], a[2] * b[2])

QSub(a, b) == Q(a[1] * b[2] - b[1] * a[2], a[2] * b[2])

QMul(a, b) ==
  LET g1 == Gcd(Abs(a[1]), b[2])
      g2 == Gcd(Abs(b[1]), a[2])
  IN  Q((a[1] \div g1) * (b[1] \div g2), (a[2] \div g2) * (b[2] \div g1))

\* a / b; b is not zero
QDiv(a, b) == QMul(a, Q(b[2], b[1]))

QLe(a, b) == a[1] * b[2] <= b[1] * a[2]

QLt(a, b) == a[1] * b[2] < b[1] * a[2]

\* max(a, b) and min(a, b) of Python: the first argument on a tie
QMax(a, b) == IF QLt(a, b) THEN b ELSE a

QMin(a, b) == IF QLt(b, a) THEN b ELSE a

\* int(a): truncation toward zero
QInt(a) == PyInt(a[1], a[2])

\* a hex colour as the sequence of its characters
ColorRed == <<"#", "F", "F", "3", "B", "3", "0">>

ColorGreen == <<"3", "4", "c", "7", "5", "9">>

HexUpper ==
  <<"0", "1", "2", "3", "4", "5", "6", "7", "8", "9", "A", "B", "C", "D", "E",
    "F">>

HexLower ==
  <<"0", "1", "2", "3", "4", "5", "6", "7", "8", "9", "a", "b", "c", "d", "e",
    "f">>

\* int(c, 16) of one character
HexVal(c) ==
  (CHOOSE k \in 1..Len(HexUpper) : HexUpper[k] = c \/ HexLower[k] = c) - 1

\* hex_color.lstrip("#")
RECURSIVE lstrip_hash(_)
lstrip_hash(hex_color) ==
  IF hex_color # <<>> /\ Head(hex_color) = "#"
  THEN lstrip_hash(Tail(hex_color))
  ELSE hex_color

\* hex_to_rgb: (R, G, B) of '#RRGGBB' or 'RRGGBB'
hex_to_rgb(hex_color) ==
  LET h == lstrip_hash(hex_color)
  IN  [k \in 1..3 |-> (HexVal(h[2 * k - 1]) * 16) + HexVal(h[2 * k])]

\* None for an outline or a fill that is not given
NoColor == <<>>

\* what ImageDraw draws: draw.ellipse(box, outline, fill, width) and
\* draw.line([from, to], fill, width); width is 1 when it is not given
Ellipse(box, outline, fill, width) ==
  [op |-> "ellipse", at |-> box, outline |-> outline, fill |-> fill,
   width |-> width]

Line(from, to, fill, width) ==
  [op |-> "line", at |-> <<from[1], from[2], to[1], to[2]>>,
   outline |-> NoColor, fill |-> fill, width |-> width]

\* [cx - r, cy - r, cx + r, cy + r]
RingBox(cx, cy, r) ==
  <<QSub(cx, Q(r, 1)), QSub(cy, Q(r, 1)), QAdd(cx, Q(r, 1)),
    QAdd(cy, Q(r, 1))>>

\* _draw_click_marker(draw, cx, cy, color, scale): the drawing calls it
\* makes, in order
_draw_click_marker(cx, cy, color, scale) ==
  LET r_outer == 36 * scale
      r_inner == 20 * scale
      r_dot == 5 * scale
      gap == r_outer + 4 * scale
      arm == 16 * scale
      lw == 2 * scale
  IN  << Ellipse(RingBox(cx, cy, r_outer), color, NoColor, 2 * scale),
         Ellipse(RingBox(cx, cy, r_inner), color, NoColor, 2 * scale),
         Ellipse(RingBox(cx, cy, r_dot), NoColor, color, 1),
         Line(<<cx, QSub(cy, Q(gap, 1))>>, <<cx, QSub(cy, Q(gap + arm, 1))>>,
              color, lw),
         Line(<<cx, QAdd(cy, Q(gap, 1))>>, <<cx, QAdd(cy, Q(gap + arm, 1))>>,
              color, lw),
         Line(<<QSub(cx, Q(gap, 1)), cy>>, <<QSub(cx, Q(gap + arm, 1)), cy>>,
              color, lw),
         Line(<<QAdd(cx, Q(gap, 1)), cy>>, <<QAdd(cx, Q(gap + arm, 1)), cy>>,
              color, lw) >>

\* AnnotationConfig()
AnnotationConfig ==
  [enabled |-> TRUE, shape |-> "rectangle", color |-> ColorRed,
   line_width |-> 3, size |-> 40, padding |-> 8]

AnnotationConfigs ==
  [enabled : BOOLEAN, shape : {"rectangle", "circle"},
   color : {ColorRed, ColorGreen}, line_width : {3, 5}, size : {40},
   padding : {8}]

\* what a call of annotate_click or create_zoom_gif leaves: the path it
\* returns, the files it wrote and what it drew
Outcome(kind, path, written, drawn) ==
  [kind |-> kind, path |-> path, written |-> written, drawn |-> drawn,
   frames |-> <<>>, locals |-> <<>>]

\* a slip in the disabled branch: the path that would have been written is
\* returned, as redact_image does
annotate_click_mutant(img_path, click_pos, window_origin, cfg, out_path, retina_scale) ==
  LET c == IF cfg = <<>> THEN AnnotationConfig ELSE cfg[1]
      rel_x == (click_pos[1] - window_origin[1]) * retina_scale
      rel_y == (click_pos[2] - window_origin[2]) * retina_scale
      save_path == PyOr(out_path, img_path)
  IN  IF ~c.enabled
      THEN Outcome("return", save_path, {}, <<>>)
      ELSE Outcome("return", save_path, {save_path},
                   _draw_click_marker(Q(rel_x, 1), Q(rel_y, 1),
                                      hex_to_rgb(c.color), retina_scale))

\* a slip in the mapping: the scale is applied to the click only
annotate_click_mutant_map(img_path, click_pos, window_origin, cfg, out_path, retina_scale) ==
  LET c == IF cfg = <<>> THEN AnnotationConfig ELSE cfg[1]
      rel_x == click_pos[1] * retina_scale - window_origin[1]
      rel_y == click_pos[2] * retina_scale - window_origin[2]
      save_path == PyOr(out_path, img_path)
  IN  IF ~c.enabled
      THEN Outcome("return", img_path, {}, <<>>)
      ELSE Outcome("return", save_path, {save_path},
                   _draw_click_marker(Q(rel_x, 1), Q(rel_y, 1),
                                      hex_to_rgb(c.color), retina_scale))

\* annotate_click(img_path, click_pos, window_origin, config, out_path,
\* retina_scale)
annotate_click(img_path, click_pos, window_origin, cfg, out_path, retina_scale) ==
  LET c == IF cfg = <<>> THEN AnnotationConfig ELSE cfg[1]
      \* Convert screen coordinates to image pixel coordinates
      rel_x == (click_pos[1] - window_origin[1]) * retina_scale
      rel_y == (click_pos[2] - window_origin[2]) * retina_scale
      save_path == PyOr(out_path, img_path)
  IN  IF ~c.enabled
      THEN Outcome("return", img_path, {}, <<>>)
      ELSE Outcome("return", save_path, {save_path},
                   _draw_click_marker(Q(rel_x, 1), Q(rel_y, 1),
                                      hex_to_rgb(c.color), retina_scale))

\* click positions and window origins in screen points, inside and outside
\* the captured area
ClickPoints ==
  {<<100, 100>>, <<50, 50>>, <<0, 0>>, <<3, 2>>, <<-4, 7>>, <<900, 20>>}

WindowOrigins == {<<0, 0>>, <<10, 10>>}

RetinaScales == {1, 2}

InitAnnotate ==
  /\ RedactIdle
  /\ SessionIdle
  /\ \E click_pos \in ClickPoints, window_origin \in WindowOrigins,
        cfg \in {<<>>} \cup {<<c>> : c \in AnnotationConfigs},
        out \in {None, OutPath},
        retina_scale \in RetinaScales :
       call = Invoke("annotate_click",
                     <<ShotPath, click_pos, window_origin, cfg, out,
                       retina_scale>>,
                     Outcome("running", None, {}, <<>>))

Call_annotate_click ==
  /\ Running("annotate_click")
  /\ Return(annotate_click(call.args[1], call.args[2], call.args[3],
                           call.args[4], call.args[5], call.args[6]))

(***************************************************************************)
(* create_zoom_gif.  The frame counts are those for which cos(t * pi) is   *)
(* rational for every progress t = i / max(num_frames - 1, 1): t is one of *)
(* 0, 1/3, 1/2, 2/3, 1.                                                    *)
(***************************************************************************)

NumFrames == {0, 1, 2, 3, 4}

MaxHold == 2

ZoomFactors == {<<1, 2>>, <<1, 1>>, <<2, 1>>, <<4, 1>>}

\* the sizes of the screenshot
GifImageSizes == {<<8, 6>>, <<400, 300>>, <<1600, 1000>>}

GifPath == "shot.gif"

\* image_path.with_suffix(".gif")
with_suffix(path, suffix) ==
  IF suffix = ".gif" /\ path \in {ShotPath, GifPath} THEN GifPath ELSE path

\* math.cos(t * math.pi)
CosPiTable ==
  { [t |-> <<0, 1>>, cos |-> <<1, 1>>],  [t |-> <<1, 3>>, cos |-> <<1, 2>>],
    [t |-> <<1, 2>>, cos |-> <<0, 1>>],  [t |-> <<2, 3>>, cos |-> <<-1, 2>>],
    [t |-> <<1, 1>>, cos |-> <<-1, 1>>] }

cos_pi(t) == (CHOOSE e \in CosPiTable : e.t = t).cos

\* a slip in the progress: the transition runs from 1 down to 0
progress_mutant(i, num_frames) ==
  IF i < num_frames
  THEN QSub(<<1, 1>>, Q(i, Max(num_frames - 1, 1)))
  ELSE <<1, 1>>

\* Progress: 0.0 (full view) -> 1.0 (zoomed in)
progress(i, num_frames) ==
  IF i < num_frames THEN Q(i, Max(num_frames - 1, 1)) ELSE <<1, 1>>

\* Ease-in-out curve: (1 - cos(t * pi)) / 2
ease(t) == QDiv(QSub(<<1, 1>>, cos_pi(t)), <<2, 1>>)

\* a slip in the clamp of the crop window: the lower limit is applied first,
\* so the window can pass the far edge of the image
crop_origin_mutant(target, zoom_n, img_n) ==
  QMax(<<0, 1>>, QSub(target, QDiv(zoom_n, <<2, 1>>)))

\* crop_x (crop_y): the window centred on the target, clamped so that it does
\* not go outside the image
crop_origin(target, zoom_n, img_n) ==
  QMax(<<0, 1>>, QMin(QSub(target, QDiv(zoom_n, <<2, 1>>)),
                      QSub(<<img_n, 1>>, zoom_n)))

\* a slip in the threshold: the marker is drawn from the half-way frame on
marker_shown_mutant(t_ease) == QLe(<<1, 2>>, t_ease)

\* if t_ease > 0.5
marker_shown(t_ease) == QLt(<<1, 2>>, t_ease)

\* a slip in the target: the click in image pixels is not clamped
gif_target_mutant(click, origin, retina_scale, img_n) ==
  Q((click - origin) * retina_scale, 1)

\* target_x (target_y): the click in image pixels, clamped to the image
gif_target(click, origin, retina_scale, img_n) ==
  Q(Max(0, Min((click - origin) * retina_scale, img_n - 1)), 1)

\* a slip in the loop bound: the last hold frame is not built
frame_count_mutant(num_frames, hold_frames) ==
  Max(num_frames + hold_frames - 1, 0)

\* range(num_frames + hold_frames)
frame_count(num_frames, hold_frames) == num_frames + hold_frames

\* the values computed before the loop
gif_locals(a) ==
  LET img_w == a.img_size[1]
      img_h == a.img_size[2]
      gif_w == Min(img_w, 800)
  IN  [out_path |-> IF a.out_path = None
                    THEN with_suffix(a.img_path, ".gif") ELSE a.out_path,
       img_w |-> img_w, img_h |-> img_h,
       target_x |-> gif_target(a.click_pos[1], a.window_origin[1],
                               a.retina_scale, img_w),
       target_y |-> gif_target(a.click_pos[2], a.window_origin[2],
                               a.retina_scale, img_h),
       gif_w |-> gif_w,
       gif_h |-> PyInt(gif_w * img_h, img_w),
       rgb_color |-> hex_to_rgb(a.color)]

\* the body of the loop for frame i
zoom_frame(l, num_frames, zoom_factor, i) ==
  LET t == progress(i, num_frames)
      t_ease == ease(t)
      zoom == QAdd(<<1, 1>>, QMul(QSub(zoom_factor, <<1, 1>>), t_ease))
      zoom_w == QDiv(<<l.img_w, 1>>, zoom)
      zoom_h == QDiv(<<l.img_h, 1>>, zoom)
      crop_x == crop_origin(l.target_x, zoom_w, l.img_w)
      crop_y == crop_origin(l.target_y, zoom_h, l.img_h)
      crop_box == <<QInt(crop_x), QInt(crop_y), QInt(QAdd(crop_x, zoom_w)),
                    QInt(QAdd(crop_y, zoom_h))>>
      \* Recalculate click position relative to the crop
      marker_x == QMul(QDiv(QSub(l.target_x, crop_x), zoom_w), <<l.gif_w, 1>>)
      marker_y == QMul(QDiv(QSub(l.target_y, crop_y), zoom_h), <<l.gif_h, 1>>)
      marker_scale == Max(1, l.gif_w \div 800)
  IN  [i |-> i, t |-> t, t_ease |-> t_ease, zoom_w |-> zoom_w,
       zoom_h |-> zoom_h, crop_x |-> crop_x, crop_y |-> crop_y,
       crop_box |-> crop_box, size |-> <<l.gif_w, l.gif_h>>,
       drawn |-> IF marker_shown(t_ease)
                 THEN _draw_click_marker(marker_x, marker_y, l.rgb_color,
                                         marker_scale)
                 ELSE <<>>]

InitGif ==
  /\ RedactIdle
  /\ SessionIdle
  /\ \E click_pos \in ClickPoints, window_origin \in WindowOrigins,
        retina_scale \in RetinaScales, size \in GifImageSizes,
        num_frames \in NumFrames, hold_frames \in 0..MaxHold,
        zoom_factor \in ZoomFactors, out \in {None, OutPath} :
       call = Invoke("create_zoom_gif",
                     [img_path |-> ShotPath, img_size |-> size,
                      click_pos |-> click_pos,
                      window_origin |-> window_origin, out_path |-> out,
                      retina_scale |-> retina_scale,
                      num_frames |-> num_frames,
                      zoom_factor |-> zoom_factor,
                      hold_frames |-> hold_frames, color |-> ColorRed],
                     Outcome("called", None, {}, <<>>))

\* the image is opened; the target and the size of the GIF are computed
GifSetup ==
  /\ Running("create_zoom_gif")
  /\ call.ret.kind = "called"
  /\ call' = [call EXCEPT !.ret.kind = "loop",
                          !.ret.locals = gif_locals(call.args)]
  /\ UNCHANGED <<redactVars, sessionVars>>

\* one turn of the loop: frames.append(frame)
GifFrame ==
  /\ Running("create_zoom_gif")
  /\ call.ret.kind = "loop"
  /\ Len(call.ret.frames)
       < frame_count(call.args.num_frames, call.args.hold_frames)
  /\ call' = [call EXCEPT !.ret.frames =
                Append(@, zoom_frame(call.ret.locals, call.args.num_frames,
                                     call.args.zoom_factor, Len(@)))]
  /\ UNCHANGED <<redactVars, sessionVars>>

\* frames[0].save(output_path, save_all=True, append_images=frames[1:]);
\* frames[0] raises IndexError when no frame was built
GifSave ==
  /\ Running("create_zoom_gif")
  /\ call.ret.kind = "loop"
  /\ Len(call.ret.frames)
       >= frame_count(call.args.num_frames, call.args.hold_frames)
  /\ IF call.ret.frames = <<>>
     THEN Return([call.ret EXCEPT !.kind = "raise"])
     ELSE Return([call.ret EXCEPT !.kind = "return",
                                  !.path = call.ret.locals.out_path,
                                  !.written = {call.ret.locals.out_path}])

NextAnnotate ==
  \/ Call_annotate_click
  \/ GifSetup
  \/ GifFrame
  \/ GifSave

\* a call of annotate_click or of create_zoom_gif
SpecAnnotate == (InitAnnotate \/ InitGif) /\ [][NextAnnotate]_vars

(***************************************************************************)
(* Claims about annotate_click and create_zoom_gif                         *)
(***************************************************************************)

\* the configuration a call of annotate_click works with
ClaimAnnotationConfig ==
  IF call.args[4] = <<>> THEN AnnotationConfig ELSE call.args[4][1]

\* (click - window_origin) * retina_scale on each axis
ClaimMapped(click_pos, window_origin, retina_scale) ==
  <<(click_pos[1] - window_origin[1]) * retina_scale,
    (click_pos[2] - window_origin[2]) * retina_scale>>

\* the centre of a drawn marker: the middle of the box of its centre dot
ClaimMarkerCentre(drawn) ==
  LET dot == CHOOSE k \in 1..Len(drawn) :
               drawn[k].op = "ellipse" /\ drawn[k].fill # NoColor
      box == drawn[dot].at
  IN  <<QDiv(QAdd(box[1], box[3]), <<2, 1>>),
        QDiv(QAdd(box[2], box[4]), <<2, 1>>)>>

\* the point of the screenshot that the marker of frame f lies on: the
\* marker's place in the frame, scaled back to the crop window
ClaimMarkerInImage(f) ==
  LET c == ClaimMarkerCentre(f.drawn)
  IN  <<QAdd(f.crop_x, QDiv(QMul(c[1], f.zoom_w), <<f.size[1], 1>>)),
        QAdd(f.crop_y, QDiv(QMul(c[2], f.zoom_h), <<f.size[2], 1>>))>>

ClaimClamp(v, lo, hi) == IF v < lo THEN lo ELSE IF v > hi THEN hi ELSE v

\* the frames of the running call of create_zoom_gif that carry the marker
ClaimMarkedFrames ==
  {k \in 1..Len(call.ret.frames) : call.ret.frames[k].drawn # <<>>}

\* annotate_click puts the marker at the mapped position, unclamped
ClaimAnnotateAtMapped ==
  (Returned("annotate_click") /\ call.ret.drawn # <<>>) =>
    LET m == ClaimMapped(call.args[2], call.args[3], call.args[6])
    IN  /\ ClaimMarkerCentre(call.ret.drawn) = <<Q(m[1], 1), Q(m[2], 1)>>
        /\ (call.args[2] = <<100, 100>> /\ call.args[3] = <<0, 0>>
              /\ call.args[6] = 2)
             => ClaimMarkerCentre(call.ret.drawn) = <<<<200, 1>>, <<200, 1>>>>
        /\ (call.args[2] = <<50, 50>> /\ call.args[3] = <<10, 10>>
              /\ call.args[6] = 1)
             => ClaimMarkerCentre(call.ret.drawn) = <<<<40, 1>>, <<40, 1>>>>

\* C12 as stated: in annotate_click and in every frame of create_zoom_gif
\* that carries it, the marker lies at (click - window_origin) * retina_scale,
\* unclamped.
C12_Original ==
  /\ ClaimAnnotateAtMapped
  /\ call.fn = "create_zoom_gif" =>
       \A k \in ClaimMarkedFrames :
         LET m == ClaimMapped(call.args.click_pos, call.args.window_origin,
                              call.args.retina_scale)
         IN  ClaimMarkerInImage(call.ret.frames[k])
               = <<Q(m[1], 1), Q(m[2], 1)>>

\* C12 (amended): annotate_click puts the marker at (click - window_origin) *
\* retina_scale on each axis, unclamped ((100,100), (0,0), 2 gives (200,200);
\* (50,50), (10,10), 1 gives (40,40)); create_zoom_gif maps the click the same
\* way and then clamps it to 0..img_w-1 by 0..img_h-1, so the marker of a
\* frame lies on the mapped point only when that point is inside the image,
\* and on the nearest point of the image otherwise.
C12_MarkerAtMappedClick ==
  /\ ClaimAnnotateAtMapped
  /\ call.fn = "create_zoom_gif" =>
       \A k \in ClaimMarkedFrames :
         LET m == ClaimMapped(call.args.click_pos, call.args.window_origin,
                              call.args.retina_scale)
             w == call.args.img_size[1]
             h == call.args.img_size[2]
             inside == m[1] \in 0..(w - 1) /\ m[2] \in 0..(h - 1)
             at == ClaimMarkerInImage(call.ret.frames[k])
         IN  /\ at = <<Q(ClaimClamp(m[1], 0, w - 1), 1),
                       Q(ClaimClamp(m[2], 0, h - 1), 1)>>
             /\ (at = <<Q(m[1], 1), Q(m[2], 1)>>) = inside

\* create_zoom_gif returned for a click at (900, 20) with retina scale 2 on a
\* 400 by 300 screenshot: the click maps to (1800, 40), outside the image,
\* and the last frame carries the marker on (399, 40)
C12_Witness ==
  /\ Returned("create_zoom_gif")
  /\ call.ret.kind = "return"
  /\ call.args.click_pos = <<900, 20>>
  /\ call.args.window_origin = <<0, 0>>
  /\ call.args.retina_scale = 2
  /\ call.args.img_size = <<400, 300>>
  /\ Len(call.ret.frames) \in ClaimMarkedFrames
  /\ ClaimMarkerInImage(call.ret.frames[Len(call.ret.frames)])
       = <<<<399, 1>>, <<40, 1>>>>

\* C13: with enabled false annotate_click returns the image_path it was
\* given, also when an output_path is supplied; it draws nothing and writes
\* no file.
C13_DisabledIsNoOp ==
  (Returned("annotate_click") /\ ~ClaimAnnotationConfig.enabled) =>
    /\ call.ret.kind = "return"
    /\ call.ret.path = call.args[1]
    /\ call.ret.drawn = <<>>
    /\ call.ret.written = {}

\* a call with annotation disabled and an output_path has returned
C13_Witness ==
  /\ Returned("annotate_click")
  /\ ~ClaimAnnotationConfig.enabled
  /\ call.args[5] = OutPath
  /\ call.ret.path = ShotPath

\* the ripple marker: two rings, a filled centre dot and four crosshair arms
ClaimIsRipple(drawn) ==
  /\ Len(drawn) = 7
  /\ \A k \in 1..2 : drawn[k].op = "ellipse" /\ drawn[k].outline # NoColor
  /\ drawn[3].op = "ellipse" /\ drawn[3].fill # NoColor
  /\ \A k \in 4..7 : drawn[k].op = "line"

\* C14: the marker drawn by annotate_click follows the configured shape: for
\* 'rectangle' or 'circle' it is one outline of that shape, of the configured
\* size plus padding around the click, in the configured line width; the
\* ripple marker is drawn only for the ripple style.
C14_MarkerFollowsShape ==
  (Returned("annotate_click") /\ ClaimAnnotationConfig.enabled) =>
    LET c == ClaimAnnotationConfig
        m == ClaimMapped(call.args[2], call.args[3], call.args[6])
        r == c.size + c.padding
    IN  /\ c.shape \in {"rectangle", "circle"} =>
             /\ Len(call.ret.drawn) = 1
             /\ call.ret.drawn[1].op
                  = (IF c.shape = "circle" THEN "ellipse" ELSE "rectangle")
             /\ call.ret.drawn[1].width = c.line_width
             /\ call.ret.drawn[1].at
                  = <<Q(m[1] - r, 1), Q(m[2] - r, 1), Q(m[1] + r, 1),
                      Q(m[2] + r, 1)>>
        /\ ClaimIsRipple(call.ret.drawn) => c.shape = "ripple"

\* the number of frames the running call of create_zoom_gif is to build
ClaimFrameTotal == call.args.num_frames + call.args.hold_frames

\* C15: for num_frames >= 1 and hold_frames >= 0 create_zoom_gif builds
\* exactly num_frames + hold_frames frames, all of them before the GIF is
\* written, and it does not raise; the progress of every frame is a quotient
\* by a positive number, also for num_frames = 1.
C15_FrameCount ==
  (call.fn = "create_zoom_gif" /\ call.args.num_frames >= 1) =>
    /\ Len(call.ret.frames) <= ClaimFrameTotal
    /\ call.ret.written # {} => Len(call.ret.frames) = ClaimFrameTotal
    /\ call.returned =>
         /\ call.ret.kind = "return"
         /\ Len(call.ret.frames) = ClaimFrameTotal
         /\ call.ret.written = {call.ret.path}
    /\ \A k \in 1..Len(call.ret.frames) :
         /\ call.ret.frames[k].i = k - 1
         /\ call.ret.frames[k].t[2] > 0
         /\ k <= call.args.num_frames =>
              call.ret.frames[k].t[1] * (IF call.args.num_frames = 1 THEN 1
                                         ELSE call.args.num_frames - 1)
                = (k - 1) * call.ret.frames[k].t[2]

\* a call with num_frames = 1 and two hold frames has returned with three
\* frames
C15_Witness ==
  /\ Returned("create_zoom_gif")
  /\ call.args.num_frames = 1
  /\ call.args.hold_frames = 2
  /\ call.ret.kind = "return"
  /\ Len(call.ret.frames) = 3

\* C16: with num_frames >= 2 the progress t is 0 on the first frame, does not
\* decrease from a frame to the next, stays within 0..1, is 1 on the last
\* transition frame (index num_frames - 1) and is 1 on every hold frame.
C16_ProgressMonotone ==
  (call.fn = "create_zoom_gif" /\ call.args.num_frames >= 2) =>
    LET fs == call.ret.frames
    IN  \A k \in 1..Len(fs) :
          /\ k = 1 => fs[k].t = <<0, 1>>
          /\ k > 1 => QLe(fs[k - 1].t, fs[k].t)
          /\ QLe(<<0, 1>>, fs[k].t) /\ QLe(fs[k].t, <<1, 1>>)
          /\ k >= call.args.num_frames => fs[k].t = <<1, 1>>

\* a call with four transition frames and two hold frames has returned: the
\* progress went 0, 1/3, 2/3, 1, 1, 1
C16_Witness ==
  /\ Returned("create_zoom_gif")
  /\ call.args.num_frames = 4
  /\ call.args.hold_frames = 2
  /\ [k \in 1..6 |-> call.ret.frames[k].t]
       = <<<<0, 1>>, <<1, 3>>, <<2, 3>>, <<1, 1>>, <<1, 1>>, <<1, 1>>>>

\* C17: for every image size, every click position and every zoom_factor >= 1
\* the crop window of every frame lies inside the image (crop_x >= 0,
\* crop_y >= 0, crop_x + zoom_w <= img_w, crop_y + zoom_h <= img_h, and so
\* does the integer crop box), and the target is within 0..img_w-1 by
\* 0..img_h-1 from the moment it is computed.
C17_CropInsideImage ==
  (call.fn = "create_zoom_gif" /\ call.ret.kind # "called"
     /\ QLe(<<1, 1>>, call.args.zoom_factor)) =>
    LET l == call.ret.locals
        w == <<call.args.img_size[1], 1>>
        h == <<call.args.img_size[2], 1>>
    IN  /\ QLe(<<0, 1>>, l.target_x) /\ QLe(l.target_x, QSub(w, <<1, 1>>))
        /\ QLe(<<0, 1>>, l.target_y) /\ QLe(l.target_y, QSub(h, <<1, 1>>))
        /\ \A k \in 1..Len(call.ret.frames) :
             LET f == call.ret.frames[k]
             IN  /\ QLe(<<0, 1>>, f.crop_x)
                 /\ QLe(<<0, 1>>, f.crop_y)
                 /\ QLe(QAdd(f.crop_x, f.zoom_w), w)
                 /\ QLe(QAdd(f.crop_y, f.zoom_h), h)
                 /\ 0 <= f.crop_box[1] /\ f.crop_box[1] < f.crop_box[3]
                 /\ f.crop_box[3] <= w[1]
                 /\ 0 <= f.crop_box[2] /\ f.crop_box[2] < f.crop_box[4]
                 /\ f.crop_box[4] <= h[1]

\* a call for a click that maps right of and above the image, with zoom
\* factor 4, has returned; the crop window of its last frame is a quarter of
\* the image and touches the right and the top edge
C17_Witness ==
  /\ Returned("create_zoom_gif")
  /\ call.ret.kind = "return"
  /\ call.args.zoom_factor = <<4, 1>>
  /\ call.args.click_pos = <<900, 20>>
  /\ call.args.window_origin = <<10, 10>>
  /\ call.args.retina_scale = 2
  /\ call.args.img_size = <<1600, 1000>>
  /\ LET f == call.ret.frames[Len(call.ret.frames)]
     IN  /\ f.zoom_w = <<400, 1>>
         /\ QAdd(f.crop_x, f.zoom_w) = <<1600, 1>>
         /\ f.crop_y = <<0, 1>>

\* a frame carries the marker exactly when its t_ease exceeds 0.5; a frame
\* after one that carries it carries it; every hold frame carries it
ClaimMarkerRule ==
  LET fs == call.ret.frames
  IN  \A k \in 1..Len(fs) :
        /\ (fs[k].drawn # <<>>) = QLt(<<1, 2>>, fs[k].t_ease)
        /\ fs[k].drawn # <<>> => ClaimIsRipple(fs[k].drawn)
        /\ (k > 1 /\ fs[k - 1].drawn # <<>>) => fs[k].drawn # <<>>
        /\ k > call.args.num_frames => fs[k].drawn # <<>>

\* C18 as stated: the marker rule, and the first frame never carries the
\* marker.
C18_Original ==
  call.fn = "create_zoom_gif" =>
    /\ ClaimMarkerRule
    /\ Len(call.ret.frames) >= 1 => call.ret.frames[1].drawn = <<>>

\* C18 (amended): a frame carries the marker if and only if its t_ease
\* exceeds 0.5; once a frame carries it every later frame does, and every
\* hold frame carries it; the first frame does not carry it when
\* num_frames >= 1 (with num_frames = 0 the first frame is a hold frame and
\* carries it).
C18_MarkerAfterHalfway ==
  call.fn = "create_zoom_gif" =>
    /\ ClaimMarkerRule
    /\ Len(call.ret.frames) >= 1 =>
         (call.ret.frames[1].drawn = <<>>) = (call.args.num_frames >= 1)

\* a call with three transition frames and one hold frame has returned: the
\* frame at t_ease = 1/2 has no marker, the two after it have it
C18_Witness ==
  /\ Returned("create_zoom_gif")
  /\ call.args.num_frames = 3
  /\ call.args.hold_frames = 1
  /\ call.ret.frames[2].t_ease = <<1, 2>>
  /\ ClaimMarkedFrames = {3, 4}

(***************************************************************************)
(* The capture session (capture.py) and the callback the command line      *)
(* gives it (cli.py).  A window id or pid of 0 stands for none; a click    *)
(* position of <<>> stands for None (a capture without a click).  What     *)
(* the operating system, the screen capture, the OCR and the image library *)
(* do is a choice `env' made when an event is handled.                     *)
(***************************************************************************)

\* the keyword parameters of CaptureSession.__init__
CaptureSessionParams ==
  {"window_id", "output_dir", "pid", "owner", "fmt", "delay_ms",
   "manual_only", "on_capture"}

\* the attributes __init__ sets
CaptureSessionAttrs ==
  {"initial_window_id", "pid", "owner", "output_dir", "fmt", "delay_ms",
   "manual_only", "on_capture", "_counter", "_running", "_tap"}

\* CaptureSession(**kw): a keyword __init__ does not take raises TypeError
CaptureSession(kw) ==
  IF ~(DOMAIN kw \subseteq CaptureSessionParams)
  THEN [NoSession EXCEPT !.raised = "TypeError"]
  ELSE [initial_window_id |-> kw.window_id, pid |-> kw.pid,
        owner |-> kw.owner, output_dir |-> kw.output_dir, fmt |-> kw.fmt,
        delay_ms |-> kw.delay_ms, manual_only |-> kw.manual_only,
        on_capture |-> kw.on_capture, _counter |-> 0, _running |-> FALSE,
        _tap |-> None, built |-> TRUE, raised |-> None]

\* the on_capture callbacks: None, the lambda of the class docstring, and
\* on_capture of cli.main with its config.redact.enabled,
\* config.annotation.enabled and generate_gif
OnCaptureCallbacks ==
  {[kind |-> None], [kind |-> "print"]}
  \cup {[kind |-> "cli", redact |-> f[1], annotation |-> f[2],
         generate_gif |-> f[3]] :
          f \in {<<TRUE, TRUE, TRUE>>, <<TRUE, FALSE, TRUE>>,
                 <<FALSE, TRUE, FALSE>>, <<FALSE, FALSE, FALSE>>}}

\* the keywords a session is constructed with, without fullscreen
SessionKwargs ==
  [window_id : {1}, output_dir : {"captures"}, pid : {0, 7}, owner : {"App"},
   fmt : {"png"}, delay_ms : {0, 100}, manual_only : {FALSE},
   on_capture : OnCaptureCallbacks]

\* the keywords cli.main constructs its session with
MainKwargs ==
  {[fullscreen |-> f] @@ kw :
     f \in BOOLEAN, kw \in {k \in SessionKwargs : k.on_capture.kind = "cli"}}

\* a window of the on-screen list
Window(id, pid, layer) == [id |-> id, pid |-> pid, layer |-> layer]

\* on-screen window lists, front to back: the session's window 1 of process
\* 7, other windows of that process (3 is not on layer 0), a window of
\* another process
WindowLists ==
  { <<>>,
    <<Window(1, 7, 0)>>,
    <<Window(5, 9, 0), Window(1, 7, 0)>>,
    <<Window(3, 7, 1), Window(2, 7, 0), Window(4, 7, 0)>>,
    <<Window(5, 9, 0)>> }

\* find_frontmost_window_for_pid(pid): the first listed window of the process
\* on layer 0, or 0
find_frontmost_window_for_pid(pid, window_list) ==
  LET hits == {k \in 1..Len(window_list) :
                 /\ window_list[k].pid = pid
                 /\ window_list[k].id # 0
                 /\ window_list[k].layer = 0}
  IN  IF hits = {} THEN 0
      ELSE window_list[CHOOSE k \in hits : \A j \in hits : k <= j].id

\* a slip in _resolve_window_id: the window found by pid is not stored
resolve_window_id_mutant(s, window_list) ==
  LET new_wid == find_frontmost_window_for_pid(s.pid, window_list)
  IN  IF \E k \in 1..Len(window_list) :
           window_list[k].id = s.initial_window_id
      THEN [wid |-> s.initial_window_id, session |-> s]
      ELSE IF s.pid # 0 /\ new_wid # 0
      THEN [wid |-> new_wid, session |-> s]
      ELSE [wid |-> 0, session |-> s]

\* _resolve_window_id: the window id, or 0 for None, and the session
\* afterwards
_resolve_window_id(s, window_list) ==
  LET new_wid == find_frontmost_window_for_pid(s.pid, window_list)
  IN  IF \E k \in 1..Len(window_list) :
           window_list[k].id = s.initial_window_id
      THEN [wid |-> s.initial_window_id, session |-> s]
      ELSE IF s.pid # 0 /\ new_wid # 0
      THEN [wid |-> new_wid,
            session |-> [s EXCEPT !.initial_window_id = new_wid]]
      ELSE [wid |-> 0, session |-> s]

DecimalDigits == <<"0", "1", "2", "3", "4", "5", "6", "7", "8", "9">>

\* the decimal digits of n
RECURSIVE decimal(_)
decimal(n) ==
  IF n < 10 THEN <<DecimalDigits[n + 1]>>
  ELSE Append(decimal(n \div 10), DecimalDigits[(n % 10) + 1])

\* f"{n:03d}"
format_03d(n) ==
  LET ds == decimal(n)
  IN  IF Len(ds) >= 3 THEN ds ELSE Repeat("0", 3 - Len(ds)) \o ds

\* output_dir / f"{counter:03d}.{fmt}"
ShotFile(output_dir, counter, fmt) ==
  [dir |-> output_dir, stem |-> format_03d(counter), suffix |-> fmt]

\* a slip in _next_path: the counter is not advanced
next_path_mutant(s) ==
  [path |-> ShotFile(s.output_dir, s._counter + 1, s.fmt), session |-> s]

\* _next_path: the path, and the session afterwards
_next_path(s) ==
  [path |-> ShotFile(s.output_dir, s._counter + 1, s.fmt),
   session |-> [s EXCEPT !._counter = @ + 1]]

\* the file at path now holds content
Write(sh, path, content) ==
  [p \in (DOMAIN sh) \cup {path} |-> IF p = path THEN content ELSE sh[p]]

\* the exceptions that 'except Exception' catches, among those raised here
ExceptionClasses ==
  {"RuntimeError", "AttributeError", "TypeError", "PermissionError",
   "OSError"}

\* what the world does while one event is handled: Ctrl+C during the sleep
\* (KeyboardInterrupt), how capture_window ends, how redact_image ends (it
\* raises, it finds nothing and leaves the file, it rewrites the file), how
\* annotate_click and create_zoom_gif end, and what the callback bridge does
\* with an exception that leaves the callback (it raises it in the run loop,
\* which ends, or it drops it)
Envs ==
  [interrupt : BOOLEAN,
   capture : {"direct", "fallback", "RuntimeError"},
   redact : {"raise", "none", "redacted"},
   annotate : {"ok"},
   gif : {"ok"},
   bridge : {"raise", "drop"}]
  \cup [interrupt : {FALSE}, capture : {"direct"}, redact : {"none"},
        annotate : {"ok", "OSError"}, gif : {"ok", "OSError"},
        bridge : {"raise"}]

\* how a call ends: the session and the files afterwards, the steps that
\* ran, the steps whose exception was caught and printed, the exception that
\* left it (None when it returned)
Ended(s, sh, steps, caught, raised) ==
  [session |-> s, shots |-> sh, steps |-> steps, caught |-> caught,
   raised |-> raised]

\* on_capture of cli.main (cli.py:293-339) for the callback cb: redaction,
\* then for a capture with a click the origin, the marker and the GIF
on_capture_cli(cb, s, sh, path, click_pos, env) ==
  LET \* 0) Redact sensitive info (before annotation/GIF); an exception is
      \* caught and printed
      sh0 == IF cb.redact /\ env.redact = "redacted"
             THEN Write(sh, path, Append(sh[path], "redact"))
             ELSE sh
      steps0 == IF cb.redact THEN <<"redact">> ELSE <<>>
      caught0 == IF cb.redact /\ env.redact = "raise" THEN <<"redact">>
                 ELSE <<>>
      \* 1) Draw click marker on the PNG
      marked == cb.annotation /\ env.annotate = "ok"
      sh1 == IF marked THEN Write(sh0, path, Append(sh0[path], "annotate"))
             ELSE sh0
      steps1 == IF cb.annotation THEN Append(steps0, "annotate") ELSE steps0
      caught1 == IF cb.annotation /\ env.annotate # "ok"
                 THEN Append(caught0, "annotate") ELSE caught0
      \* 2) Generate zoom-to-click GIF
      gif_path == [path EXCEPT !.suffix = "gif"]
      sh2 == IF cb.generate_gif /\ env.gif = "ok"
             THEN Write(sh1, gif_path, Append(sh1[path], "gif"))
             ELSE sh1
      steps2 == IF cb.generate_gif THEN Append(steps1, "gif") ELSE steps1
      caught2 == IF cb.generate_gif /\ env.gif # "ok"
                 THEN Append(caught1, "gif") ELSE caught1
  IN  IF click_pos = <<>>
      THEN Ended(s, sh0, steps0, caught0, None)
      \* if session.fullscreen: the session has no such attribute
      ELSE IF "fullscreen" \notin CaptureSessionAttrs
      THEN Ended(s, sh0, steps0, caught0, "AttributeError")
      ELSE Ended(s, sh2, steps2, caught2, None)

\* self.on_capture(result, click_pos)
on_capture(s, sh, path, click_pos, env) ==
  IF s.on_capture.kind = "cli"
  THEN on_capture_cli(s.on_capture, s, sh, path, click_pos, env)
  ELSE Ended(s, sh, <<>>, <<>>, None)

\* take_screenshot(click_pos)
take_screenshot(s, window_list, sh, click_pos, env) ==
  LET r == _resolve_window_id(s, window_list)
      n == _next_path(r.session)
      sh1 == Write(sh, n.path, <<"capture">>)
      c == on_capture(n.session, sh1, n.path, click_pos, env)
  IN  IF s.delay_ms > 0 /\ env.interrupt
      THEN Ended(s, sh, <<>>, <<>>, "KeyboardInterrupt")
      ELSE IF r.wid = 0
      THEN Ended(r.session, sh, <<>>, <<>>, "RuntimeError")
      ELSE IF env.capture = "RuntimeError"
      THEN Ended(n.session, sh, <<>>, <<>>, "RuntimeError")
      ELSE IF n.session.on_capture.kind # None
      THEN [c EXCEPT !.steps = <<"capture">> \o @]
      ELSE Ended(n.session, sh1, <<"capture">>, <<>>, None)

\* what the session did with one event or call
Handled(type, click_pos, called, steps, caught, error, escaped, returned) ==
  [type |-> type, click_pos |-> click_pos, called |-> called,
   steps |-> steps, caught |-> caught, error |-> error, escaped |-> escaped,
   returned |-> returned]

\* stop()
stop(s) == [s EXCEPT !._running = FALSE, !._tap = None]

\* a slip in the handler: only RuntimeError is caught
event_callback_mutant(s, window_list, sh, ev, env) ==
  LET click_pos == ev.location
      r == take_screenshot(s, window_list, sh, click_pos, env)
  IN  IF ev.type # "LeftMouseDown"
      THEN [session |-> s, shots |-> sh,
            entry |-> Handled(ev.type, <<>>, FALSE, <<>>, <<>>, None, None,
                              TRUE)]
      ELSE IF r.raised \in {None, "RuntimeError"}
      THEN [session |-> r.session, shots |-> r.shots,
            entry |-> Handled(ev.type, click_pos, TRUE, r.steps, r.caught,
                              r.raised, None, TRUE)]
      ELSE [session |-> IF env.bridge = "raise" THEN stop(r.session)
                        ELSE r.session,
            shots |-> r.shots,
            entry |-> Handled(ev.type, click_pos, TRUE, r.steps, r.caught,
                              None, r.raised, FALSE)]

\* _event_callback(proxy, event_type, event, refcon): a left mouse down
\* takes a screenshot; an Exception is caught and printed and the event is
\* returned; any other exception leaves the callback, and when it reaches
\* the run loop start() stops the session
_event_callback(s, window_list, sh, ev, env) ==
  LET click_pos == ev.location
      r == take_screenshot(s, window_list, sh, click_pos, env)
  IN  IF ev.type # "LeftMouseDown"
      THEN [session |-> s, shots |-> sh,
            entry |-> Handled(ev.type, <<>>, FALSE, <<>>, <<>>, None, None,
                              TRUE)]
      ELSE IF r.raised = None \/ r.raised \in ExceptionClasses
      THEN [session |-> r.session, shots |-> r.shots,
            entry |-> Handled(ev.type, click_pos, TRUE, r.steps, r.caught,
                              r.raised, None, TRUE)]
      ELSE [session |-> IF env.bridge = "raise" THEN stop(r.session)
                        ELSE r.session,
            shots |-> r.shots,
            entry |-> Handled(ev.type, click_pos, TRUE, r.steps, r.caught,
                              None, r.raised, FALSE)]

\* the events the tap delivers
Events ==
  [type : {"LeftMouseDown", "other"}, location : {<<100, 100>>}]

MaxEvents == 2

\* CaptureSession(...) is called, by cli.main or with the keywords of
\* __init__
CreateSession ==
  /\ ~session.built
  /\ session.raised = None
  /\ \E kw \in SessionKwargs \cup MainKwargs : session' = CaptureSession(kw)
  /\ UNCHANGED <<call, redactVars, windows, shots, handled>>

\* the windows on screen change
WindowsChange ==
  /\ session.built
  /\ \E window_list \in WindowLists :
       /\ window_list # windows
       /\ windows' = window_list
  /\ UNCHANGED <<call, redactVars, session, shots, handled>>

\* start(): the event tap is created, or PermissionError is raised
Start ==
  /\ session.built
  /\ ~session._running
  /\ session.raised = None
  /\ \/ session' = [session EXCEPT !._running = TRUE, !._tap = "tap"]
     \/ session' = [session EXCEPT !._running = TRUE,
                                   !.raised = "PermissionError"]
  /\ UNCHANGED <<call, redactVars, windows, shots, handled>>

\* the run loop ends (Ctrl+C): start() calls stop()
Stop ==
  /\ session._tap = "tap"
  /\ session' = stop(session)
  /\ UNCHANGED <<call, redactVars, windows, shots, handled>>

\* the tap delivers an event to _event_callback
EventCallback ==
  /\ session._tap = "tap"
  /\ Len(handled) < MaxEvents
  /\ \E ev \in Events, env \in Envs :
       LET r == _event_callback(session, windows, shots, ev, env)
       IN  /\ session' = r.session
           /\ shots' = r.shots
           /\ handled' = Append(handled, r.entry)
  /\ UNCHANGED <<call, redactVars, windows>>

\* take_screenshot() is called without a click position
ManualScreenshot ==
  /\ session.built
  /\ Len(handled) < MaxEvents
  /\ \E env \in Envs :
       LET r == take_screenshot(session, windows, shots, <<>>, env)
       IN  /\ session' = r.session
           /\ shots' = r.shots
           /\ handled' = Append(handled,
                                Handled("call", <<>>, TRUE, r.steps, r.caught,
                                        None, r.raised, FALSE))
  /\ UNCHANGED <<call, redactVars, windows>>

InitSession ==
  /\ call = NoCall
  /\ RedactIdle
  /\ SessionIdle

NextSession ==
  \/ CreateSession
  \/ WindowsChange
  \/ Start
  \/ Stop
  \/ EventCallback
  \/ ManualScreenshot

SpecSession == InitSession /\ [][NextSession]_vars

(***************************************************************************)
(* Claims about the handling of a click                                    *)
(***************************************************************************)

\* the steps of the per-click pipeline for the callback cb of cli.main
ClaimPipeline(cb) ==
  <<"capture">>
    \o (IF cb.redact THEN <<"redact">> ELSE <<>>)
    \o (IF cb.annotation THEN <<"annotate">> ELSE <<>>)
    \o (IF cb.generate_gif THEN <<"gif">> ELSE <<>>)

\* the places of step in what was done to a file
ClaimPlaces(content, step) == {k \in 1..Len(content) : content[k] = step}

\* C19: for every capture that has a click position the pipeline runs
\* capture, then redaction, then click annotation, then zoom-GIF generation
\* (each when it is switched on); in every file the redaction comes before
\* the marker and before the GIF is built, so both are made from the redacted
\* file.
C19_PipelineInOrder ==
  session.on_capture.kind = "cli" =>
    /\ \A k \in 1..Len(handled) :
         (handled[k].click_pos # <<>> /\ handled[k].steps # <<>>) =>
           handled[k].steps = ClaimPipeline(session.on_capture)
    /\ \A p \in DOMAIN shots :
         \A r \in ClaimPlaces(shots[p], "redact") :
           \A m \in ClaimPlaces(shots[p], "annotate")
                      \cup ClaimPlaces(shots[p], "gif") : r < m

\* an exception class that 'except Exception' does not catch
ClaimNotAnException == {"KeyboardInterrupt", "SystemExit", "GeneratorExit"}

\* the events the callback was given
ClaimEvents == {k \in 1..Len(handled) : handled[k].type # "call"}

\* C20 as stated: _event_callback catches every exception raised by
\* take_screenshot and always returns the event; it takes a screenshot only
\* for a left mouse down.
C20_Original ==
  \A k \in ClaimEvents :
    /\ handled[k].escaped = None
    /\ handled[k].returned
    /\ handled[k].called = (handled[k].type = "LeftMouseDown")

\* C20 (amended): a failure while handling one click does not end the
\* session: _event_callback catches every exception of class Exception that
\* take_screenshot raises (those of on_capture included) and then returns the
\* event unchanged; it takes a screenshot only for a left mouse down; after
\* an event it returned from the session still listens, so a later click is
\* handled.  An exception that is not an Exception (KeyboardInterrupt during
\* the sleep) is not caught: it leaves the callback, which returns no event.
C20_ExceptionsCaught ==
  /\ [](\A k \in ClaimEvents :
          /\ handled[k].called = (handled[k].type = "LeftMouseDown")
          /\ ~handled[k].called => handled[k].steps = <<>>
          /\ handled[k].returned = (handled[k].escaped = None)
          /\ handled[k].escaped # None =>
               handled[k].escaped \in ClaimNotAnException
          /\ handled[k].error \notin ClaimNotAnException)
  /\ [][(/\ Len(handled') > Len(handled)
         /\ handled'[Len(handled')].type # "call"
         /\ handled'[Len(handled')].returned)
          => (session'._tap = "tap" /\ session'._running)]_vars

\* a click whose on_capture raised AttributeError after the capture was
\* handled and the event returned; the next click was captured as well
C20_Witness ==
  /\ Len(handled) >= 2
  /\ handled[1].type = "LeftMouseDown"
  /\ handled[1].error = "AttributeError"
  /\ handled[1].steps # <<>>
  /\ handled[1].returned
  /\ handled[2].type = "LeftMouseDown"
  /\ handled[2].called
  /\ handled[2].steps # <<>>
  /\ session._counter = 2

\* the clicks of a session with the callback of cli.main whose capture was
\* saved, so that on_capture was called with a click position
ClaimCaptured ==
  {k \in ClaimEvents : /\ session.on_capture.kind = "cli"
                       /\ handled[k].click_pos # <<>>
                       /\ handled[k].steps # <<>>}

\* step is one of the steps that ran
ClaimRan(k, step) == ClaimPlaces(handled[k].steps, step) # {}

\* the exception of step was caught and reported
ClaimCaught(k, step) == ClaimPlaces(handled[k].caught, step) # {}

\* C21: the three post-capture steps fail independently: when redaction
\* raises, the exception is caught and annotation and GIF generation (each
\* when switched on) still run for that capture; when annotation raises,
\* GIF generation still runs; when one of the steps raised, no exception
\* leaves on_capture.
C21_StepsFailIndependently ==
  \A k \in ClaimCaptured :
    /\ ClaimCaught(k, "redact") =>
         /\ session.on_capture.annotation => ClaimRan(k, "annotate")
         /\ session.on_capture.generate_gif => ClaimRan(k, "gif")
    /\ ClaimCaught(k, "annotate") =>
         (session.on_capture.generate_gif => ClaimRan(k, "gif"))
    /\ handled[k].caught # <<>> =>
         (handled[k].error = None /\ handled[k].escaped = None)

\* k written with at least three digits, zero-padded (k < 1000)
ClaimPadded(k) ==
  LET d == <<"0", "1", "2", "3", "4", "5", "6", "7", "8", "9">>
  IN  <<d[(k \div 100) + 1], d[((k \div 10) % 10) + 1], d[(k % 10) + 1]>>

\* the screenshot files of the session
ClaimScreenshots == {p \in DOMAIN shots : p.suffix = session.fmt}

\* the calls of take_screenshot, by an event or directly, that saved a
\* screenshot
ClaimSaved == {k \in 1..Len(handled) : handled[k].steps # <<>>}

\* C23: within one CaptureSession the counter starts at 0, every step leaves
\* it as it is or adds exactly one, and the screenshot written when the
\* counter becomes k is output_dir/<k zero-padded to three digits>.<fmt>; so
\* every saved screenshot has a path of its own with a number up to the
\* counter.
C23_SequentialPaths ==
  /\ [][(~session.built /\ session'.built) => session'._counter = 0]_vars
  /\ [][session.built =>
          /\ session'._counter \in {session._counter, session._counter + 1}
          /\ \A p \in (DOMAIN shots') \ (DOMAIN shots) :
               /\ session'._counter = session._counter + 1
               /\ p.dir = session.output_dir
               /\ p.stem = ClaimPadded(session'._counter)
               /\ p.suffix \in {session.fmt, "gif"}]_vars
  /\ [](/\ Cardinality(ClaimScreenshots) = Cardinality(ClaimSaved)
        /\ \A p \in ClaimScreenshots :
             \E k \in 1..session._counter : p.stem = ClaimPadded(k))

\* two screenshots were saved, as captures/001.png and captures/002.png
C23_Witness ==
  /\ session._counter = 2
  /\ Cardinality(ClaimSaved) = 2
  /\ ClaimScreenshots =
       {[dir |-> "captures", stem |-> <<"0", "0", "1">>, suffix |-> "png"],
        [dir |-> "captures", stem |-> <<"0", "0", "2">>, suffix |-> "png"]}

\* C24: after any sequence of clicks and calls the session counter, which
\* stop reports as the number of screenshots captured, equals the number of
\* take_screenshot calls that saved a screenshot: a call that fails because
\* the window cannot be resolved or because capture_window raises does not
\* advance the counter.
C24_CounterCountsSaved ==
  session.built => session._counter = Cardinality(ClaimSaved)

\* the window id is in the on-screen window list
ClaimOnScreen(id) == \E k \in 1..Len(windows) : windows[k].id = id

\* the places in the on-screen list of the layer-0 windows of the session's
\* process
ClaimOwnWindows ==
  {k \in 1..Len(windows) : /\ windows[k].pid = session.pid
                           /\ windows[k].layer = 0
                           /\ windows[k].id # 0}

\* the id C25 says _resolve_window_id returns (0 for None)
ClaimResolved ==
  IF ClaimOnScreen(session.initial_window_id)
  THEN session.initial_window_id
  ELSE IF session.pid # 0 /\ ClaimOwnWindows # {}
  THEN windows[CHOOSE k \in ClaimOwnWindows :
                 \A j \in ClaimOwnWindows : k <= j].id
  ELSE 0

\* a step in which take_screenshot ran past its sleep
ClaimScreenshotStep ==
  /\ Len(handled') = Len(handled) + 1
  /\ handled'[Len(handled')].called
  /\ handled'[Len(handled')].escaped # "KeyboardInterrupt"

\* C25: _resolve_window_id returns the stored window id whenever that id is
\* on screen; otherwise, if a pid is set and the process has an on-screen
\* layer-0 window, the first listed such window, which it stores as the
\* session's window id; otherwise None, and take_screenshot raises
\* RuntimeError without saving.  A returned id is in the on-screen window
\* list and is the session's stored window id afterwards.
C25_WindowResolution ==
  /\ [](session.built =>
          LET r == _resolve_window_id(session, windows)
          IN  /\ r.wid = ClaimResolved
              /\ r.wid # 0 =>
                   /\ ClaimOnScreen(r.wid)
                   /\ r.session.initial_window_id = r.wid
                   /\ r.session = [session EXCEPT !.initial_window_id = r.wid]
              /\ r.wid = 0 => r.session = session)
  /\ [][ClaimScreenshotStep =>
          LET e == handled'[Len(handled')]
          IN  IF ClaimResolved = 0
              THEN /\ "RuntimeError" \in {e.error, e.escaped}
                   /\ e.steps = <<>>
                   /\ shots' = shots
                   /\ session' = session
              ELSE session'.initial_window_id = ClaimResolved]_vars

\* the session's window 1 had left the screen; the click was captured from
\* window 2, the frontmost layer-0 window of process 7, which is now stored
C25_Witness ==
  /\ session.pid = 7
  /\ session.initial_window_id = 2
  /\ windows = <<Window(3, 7, 1), Window(2, 7, 0), Window(4, 7, 0)>>
  /\ Len(handled) = 1
  /\ handled[1].type = "LeftMouseDown"
  /\ handled[1].steps # <<>>

(***************************************************************************)
(* capture_window (capture.py)                                             *)
(*                                                                         *)
(* The call is followed through its two methods.  What the screencapture   *)
(* command and the window server do is drawn at the call: how each         *)
(* subprocess.run ends ("rc0", "rc1", or TimeoutExpired after timeout=10), *)
(* what it leaves at the path it was given ("absent", "empty", "data"),    *)
(* and the bounds of the window (<<>> when it is not on screen).           *)
(***************************************************************************)

RunOutcomes == {"rc0", "rc1", "TimeoutExpired"}

FileStates == {"absent", "empty", "data"}

\* _get_window_bounds(window_id): None, or the bounds
WindowBounds == {<<>>, <<[x |-> 10, y |-> 10, w |-> 400, h |-> 300]>>}

CaptureEnvs ==
  [direct : RunOutcomes, direct_file : FileStates, bounds : WindowBounds,
   full : RunOutcomes, full_file : FileStates]

\* where the call is, the files at output_path and tmp_path, the methods
\* tried, the path returned or the exception raised
CaptureState(kind, out_file, tmp_file, tried, path, exc) ==
  [kind |-> kind, out_file |-> out_file, tmp_file |-> tmp_file,
   tried |-> tried, path |-> path, exc |-> exc]

InitCapture ==
  /\ RedactIdle
  /\ SessionIdle
  /\ \E fmt \in {"png", "jpg"}, suffix \in {"png", "jpg"}, env \in CaptureEnvs :
       call = Invoke("capture_window",
                     [window_id |-> 1,
                      out_path |-> ShotFile("captures", 1, suffix),
                      fmt |-> fmt, env |-> env],
                     CaptureState("called", "absent", "absent", <<>>, None,
                                  None))

\* Method 1: screencapture -l; the file is returned when the command
\* succeeded and left a file that is not empty, and is removed otherwise
CaptureDirect ==
  /\ Running("capture_window")
  /\ call.ret.kind = "called"
  /\ LET env == call.args.env
         path == [call.args.out_path EXCEPT !.suffix = call.args.fmt]
         st == [call.ret EXCEPT !.tried = Append(@, "direct"),
                                !.out_file = env.direct_file]
     IN  IF env.direct = "TimeoutExpired"
         THEN Return([st EXCEPT !.kind = "raise", !.exc = "TimeoutExpired"])
         ELSE IF env.direct = "rc0" /\ env.direct_file = "data"
         THEN Return([st EXCEPT !.kind = "return", !.path = path])
         ELSE /\ call' = [call EXCEPT !.ret = [st EXCEPT !.kind = "method2",
                                                        !.out_file = "absent"]]
              /\ UNCHANGED <<redactVars, sessionVars>>

\* Method 2 begins: the bounds of the window, then the temporary file
CaptureBounds ==
  /\ Running("capture_window")
  /\ call.ret.kind = "method2"
  /\ IF call.args.env.bounds = <<>>
     THEN Return([call.ret EXCEPT !.kind = "raise", !.exc = "RuntimeError"])
     ELSE /\ call' = [call EXCEPT !.ret.kind = "fallback",
                                  !.ret.tmp_file = "empty"]
          /\ UNCHANGED <<redactVars, sessionVars>>

\* the try block of method 2 with its finally: screencapture -x to the
\* temporary file, the image is opened, cropped to the bounds and saved
CaptureFallback ==
  /\ Running("capture_window")
  /\ call.ret.kind = "fallback"
  /\ LET env == call.args.env
         path == [call.args.out_path EXCEPT !.suffix = call.args.fmt]
         st == [call.ret EXCEPT !.tried = Append(@, "fallback"),
                                !.tmp_file = "absent"]
     IN  IF env.full = "TimeoutExpired"
         THEN Return([st EXCEPT !.kind = "raise", !.exc = "TimeoutExpired"])
         ELSE IF env.full # "rc0" \/ env.full_file = "absent"
         THEN Return([st EXCEPT !.kind = "raise", !.exc = "RuntimeError"])
         ELSE IF env.full_file = "empty"
         THEN Return([st EXCEPT !.kind = "raise",
                                !.exc = "UnidentifiedImageError"])
         ELSE Return([st EXCEPT !.kind = "return", !.path = path,
                                !.out_file = "data"])

NextCapture ==
  \/ CaptureDirect
  \/ CaptureBounds
  \/ CaptureFallback

SpecCapture == InitCapture /\ [][NextCapture]_vars

\* the direct capture did not give a file
ClaimDirectFailed ==
  ~(call.args.env.direct = "rc0" /\ call.args.env.direct_file = "data")

\* C26: capture_window tries the direct window capture first and the
\* full-screen-plus-crop fallback only after the direct capture failed; it
\* either returns the path of a saved screenshot or raises RuntimeError; on
\* every exit of the fallback the temporary file has been deleted, and a
\* failed direct capture leaves no file at the output path.
C26_CaptureWindowExits ==
  (call.fn = "capture_window" /\ call.ret.tried # <<>>) =>
    /\ call.ret.tried \in {<<"direct">>, <<"direct", "fallback">>}
    /\ (call.ret.kind = "fallback" \/ Len(call.ret.tried) = 2)
         => ClaimDirectFailed
    /\ call.returned =>
         \/ /\ call.ret.kind = "return"
            /\ call.ret.path = [call.args.out_path
                                  EXCEPT !.suffix = call.args.fmt]
            /\ call.ret.out_file = "data"
         \/ /\ call.ret.kind = "raise"
            /\ call.ret.exc = "RuntimeError"
    /\ (call.returned /\ Len(call.ret.tried) = 2)
         => call.ret.tmp_file = "absent"
    /\ (ClaimDirectFailed /\ call.ret.kind # "return")
         => call.ret.out_file = "absent"

(***************************************************************************)
(* _find_sensitive_regions on one observation, for boxes that reach up to  *)
(* 1/BoxGrid beyond the image, image sizes and paddings of either sign     *)
(***************************************************************************)

\* the boxes Vision may return, in units of 1/BoxGrid
OcrBoxes ==
  {b \in [x : (-1)..BoxGrid, y : (-1)..BoxGrid, w : 0..BoxGrid,
          h : 0..BoxGrid] :
     b.x + b.w <= BoxGrid + 1 /\ b.y + b.h <= BoxGrid + 1}

\* image sizes: one pixel, a small image, the largest image
RegionImageSizes == {<<1, 1>>, <<3, 2>>, <<MaxImgW, MaxImgH>>}

\* the observation with box b: an e-mail address located by the
\* observation's box, or a card number and an address located by the box of
\* the matched range
RegionObservations(b) ==
  { Observation(TextEmail, b, "none", Box(0, 0, 0, 0)),
    Observation(TextCardAndEmail, Box(0, 0, BoxGrid, BoxGrid), "ok", b) }

InitRegions ==
  /\ RedactIdle
  /\ SessionIdle
  /\ \E b \in OcrBoxes, size \in RegionImageSizes,
        pad \in (-MaxPadding)..MaxPadding :
       \E obs \in RegionObservations(b) :
         call = Invoke("_find_sensitive_regions",
                       <<<<obs>>, size[1], size[2],
                         [DefaultRedactConfig EXCEPT !.enabled = TRUE,
                                                     !.padding = pad]>>,
                       <<>>)

Call_find_sensitive_regions ==
  /\ Running("_find_sensitive_regions")
  /\ Return(_find_sensitive_regions(call.args[1], call.args[2], call.args[3],
                                    call.args[4]))

NextRegions == Call_find_sensitive_regions

SpecRegions == InitRegions /\ [][NextRegions]_vars

\* the box of the one observation that locates its matches
ClaimBoxOf(obs) ==
  IF obs.candidate.range = "ok" THEN obs.candidate.bbox ELSE obs.bbox

\* the pixel rectangle of box b before it is limited to the image: left,
\* top, width, height
ClaimPadded4(b, img_w, img_h, pad) ==
  <<PyInt(b.x * img_w, BoxGrid) - pad,
    PyInt((BoxGrid - b.y - b.h) * img_h, BoxGrid) - pad,
    PyInt(b.w * img_w, BoxGrid) + 2 * pad,
    PyInt(b.h * img_h, BoxGrid) + 2 * pad>>

\* C27: every SensitiveRegion emitted by _find_sensitive_regions has w > 0
\* and h > 0 and lies inside the image, for every bounding box returned by
\* OCR and every padding, negative ones included; a rectangle without width
\* or height is dropped (the call returns, with no region for it), so
\* _apply_mosaic is never given an empty or out-of-image rectangle.
C27_RegionsPositiveInsideImage ==
  Returned("_find_sensitive_regions") =>
    LET img_w == call.args[2]
        img_h == call.args[3]
        r4 == ClaimPadded4(ClaimBoxOf(call.args[1][1]), img_w, img_h,
                           call.args[4].padding)
    IN  /\ \A k \in 1..Len(call.ret) :
             /\ call.ret[k].w > 0
             /\ call.ret[k].h > 0
             /\ call.ret[k].x >= 0
             /\ call.ret[k].y >= 0
             /\ call.ret[k].x + call.ret[k].w <= img_w
             /\ call.ret[k].y + call.ret[k].h <= img_h
        /\ (r4[3] <= 0 \/ r4[4] <= 0) => call.ret = <<>>

\* with a negative padding a region was emitted away from the image's edges
C27_Witness ==
  /\ Returned("_find_sensitive_regions")
  /\ call.args[4].padding < 0
  /\ Len(call.ret) = 2
  /\ call.ret[1].x > 0 /\ call.ret[1].y > 0
  /\ call.ret[1].x + call.ret[1].w < call.args[2]

(***************************************************************************)
(* Further claims about redact_image, create_zoom_gif and _mask_text       *)
(***************************************************************************)

\* C28: whenever redact_image returns a path, an image file exists at that
\* path and holds the result: the image that was saved when regions were
\* redacted, the unmodified image when nothing was redacted; on every return,
\* those with a supplied output_path where redaction is disabled, OCR yields
\* nothing or no region matches included.
C28_ReturnedPathHoldsResult ==
  (Done /\ result.kind = "return") =>
    /\ result.path \in DOMAIN files
    /\ result.regions = <<>> => files[result.path] = ShotImage
    /\ result.regions # <<>> => result.path \in saved

\* C29: in every frame of create_zoom_gif, for every click position and
\* every zoom_factor >= 1, the clamped click target lies inside the frame's
\* crop window (crop_x <= target_x <= crop_x + zoom_w, and likewise for y),
\* so the marker position of a frame that carries the marker lies within the
\* output frame (0 <= marker_x <= gif_w, 0 <= marker_y <= gif_h).
C29_TargetInsideCrop ==
  (call.fn = "create_zoom_gif" /\ call.ret.kind # "called"
     /\ QLe(<<1, 1>>, call.args.zoom_factor)) =>
    LET l == call.ret.locals
    IN  \A k \in 1..Len(call.ret.frames) :
          LET f == call.ret.frames[k]
          IN  /\ QLe(f.crop_x, l.target_x)
              /\ QLe(l.target_x, QAdd(f.crop_x, f.zoom_w))
              /\ QLe(f.crop_y, l.target_y)
              /\ QLe(l.target_y, QAdd(f.crop_y, f.zoom_h))
              /\ f.drawn # <<>> =>
                   LET c == ClaimMarkerCentre(f.drawn)
                   IN  /\ QLe(<<0, 1>>, c[1]) /\ QLe(c[1], <<f.size[1], 1>>)
                       /\ QLe(<<0, 1>>, c[2]) /\ QLe(c[2], <<f.size[2], 1>>)

\* a click beyond the right edge and near the top: in the last frame the crop
\* window is pushed against both edges and the marker is off the frame's
\* centre, right of it and above it
C29_Witness ==
  /\ Returned("create_zoom_gif")
  /\ call.ret.kind = "return"
  /\ call.args.zoom_factor = <<2, 1>>
  /\ call.args.click_pos = <<900, 20>>
  /\ call.args.img_size = <<400, 300>>
  /\ LET f == call.ret.frames[Len(call.ret.frames)]
         c == ClaimMarkerCentre(f.drawn)
     IN  /\ f.drawn # <<>>
         /\ QAdd(f.crop_x, f.zoom_w) = <<400, 1>>
         /\ f.crop_y = <<0, 1>>
         /\ QLt(<<f.size[1], 2>>, c[1])
         /\ QLt(c[2], <<f.size[2], 2>>)

\* the outputs the docstring of _mask_text gives for its examples
ClaimMaskedCard ==
  <<"4", "5", "*", "*", "*", "*", "*", "*", "*", "*", "*", "*", "9", "0",
    "1", "2">>

ClaimMaskedKey ==
  <<"s", "k", "*", "*", "*", "*", "*", "*", "*", "*", "*", "*", "y", "z">>

ClaimMaskedShort == <<"s", "h", "*", "r", "t">>

\* C30: _mask_text produces the outputs given in its docstring:
\* '4532123456789012' masks to '45**********9012', 'sk-abc123xyz' to
\* 'sk**********yz' and 'short' to 'sh*rt'.
C30_DocstringExamples ==
  Returned("_mask_text") =>
    /\ call.args[1] = MaskExampleCard => call.ret = ClaimMaskedCard
    /\ call.args[1] = MaskExampleKey => call.ret = ClaimMaskedKey
    /\ call.args[1] = MaskExampleShort => call.ret = ClaimMaskedShort

====
